---------------------------- MODULE Spec2Model ----------------------------
(***************************************************************************)
(* Model of the hook-configuration validator (verify-hooks.js,             *)
(* src/unnamed/part_001): validateMatcher, validateTimeout,                *)
(* validateScriptPath, validateHook, validateHooksConfig, printReport and  *)
(* main; and of the agent-descriptor validator (validate-agents.js):       *)
(* parseFrontmatter, validateAgent, validatePluginAgents and main.         *)
(*                                                                         *)
(* JSON values are records tagged by the JavaScript type in field t.       *)
(* Strings are sequences of tokens: single characters where the code       *)
(* inspects characters (matchers), words and path pieces where it inspects *)
(* words (commands).  Diagnostic messages are records [msg, ...] whose     *)
(* extra fields hold the values the code interpolates into the text.       *)
(* An uncaught TypeError is the record Threw.                              *)
(***************************************************************************)
EXTENDS Integers, Sequences, FiniteSets, TLC

VARIABLES
    argv,        \* process.argv.slice(2)
    files,       \* content of the three settings files main() may read
    disk,        \* the paths for which fs.existsSync answers true
    platform,    \* process.platform
    pc,          \* position of main()
    allResults,  \* main's allResults
    exit,        \* the process's exit: [exited, code]
    call,        \* the function under unit check and its arguments
    ret,         \* its return value, Pending before the call
    fileList,    \* validate-agents main: files, the .md names of the directory
    fileIndex,     \* validate-agents main: position of the for-of loop over files
    hasErrors,     \* validate-agents main: hasErrors
    totalWarnings, \* validate-agents main: totalWarnings
    output,        \* what main has printed so far: the diagnostics of
                   \* validate-agents, the totals of verify-hooks
    scan           \* parseFrontmatter: lines, the loop's position, data,
                   \* currentKey and multilineMode

\* The local variables of the main() of validate-agents.js and of
\* parseFrontmatter.
agentsLocals ==
    <<fileList, fileIndex, hasErrors, totalWarnings, output, scan>>

vars ==
    <<argv, files, disk, platform, pc, allResults, exit, call, ret,
      fileList, fileIndex, hasErrors, totalWarnings, output, scan>>

-----------------------------------------------------------------------------
(* JavaScript values *)

Undef == [t |-> "undefined"]
Null == [t |-> "null"]
Num(n) == [t |-> "number", n |-> n]
Str(s) == [t |-> "string", s |-> s]
Bool(b) == [t |-> "boolean", b |-> b]
Arr(items) == [t |-> "array", items |-> items]
Pending == [t |-> "pending"]

\* An uncaught TypeError (property read of null/undefined, call of a non-function).
Threw == [threw |-> TRUE, error |-> "TypeError"]

\* ToBoolean
Truthy(v) ==
    CASE v.t \in {"undefined", "null"} -> FALSE
      [] v.t = "number" -> v.n # 0
      [] v.t = "string" -> v.s # <<>>
      [] v.t = "boolean" -> v.b
      [] OTHER -> TRUE

\* v[key] for a value that is neither null nor undefined
Get(v, key) ==
    IF v.t = "object" /\ key \in DOMAIN v THEN v[key] ELSE Undef

\* Reading a property of null or undefined throws.
IsNullish(v) == v.t \in {"undefined", "null"}

\* A message field that is absent (or null).
Absent == [msg |-> "<absent>"]

-----------------------------------------------------------------------------
(* CONFIG *)

TimeoutMin == 1
TimeoutMax == 600

Recommended ==
    [PreToolUse |-> 5, PostToolUse |-> 60, SessionStart |-> 5, SessionEnd |-> 5]

validLifecycles ==
    {"PreToolUse", "PostToolUse", "Notification", "Stop", "SessionEnd",
     "SessionStart", "PreCompact", "Setup"}

validHookTypes == {Str(<<"command">>)}

-----------------------------------------------------------------------------
(* validateMatcher *)

Letters ==
    {"a", "b", "c", "d", "e", "f", "g", "h", "i", "j", "k", "l", "m",
     "n", "o", "p", "q", "r", "s", "t", "u", "v", "w", "x", "y", "z",
     "A", "B", "C", "D", "E", "F", "G", "H", "I", "J", "K", "L", "M",
     "N", "O", "P", "Q", "R", "S", "T", "U", "V", "W", "X", "Y", "Z"}

\* [A-Za-z]
IsLetter(c) == c \in Letters

\* . (any character but a line terminator)
IsDot(c) == c \notin {"\n", "\r"}

\* "*"
PatternWildcard(s) == s = <<"*">>

\* /^[A-Za-z]+$/
PatternSingleTool(s) ==
    /\ Len(s) >= 1
    /\ \A i \in 1..Len(s) : IsLetter(s[i])

\* /^[A-Za-z]+\|[A-Za-z|]+$/
PatternMultiTool(s) ==
    \E k \in 1..(Len(s) - 2) :
        /\ \A i \in 1..k : IsLetter(s[i])
        /\ s[k + 1] = "|"
        /\ \A i \in (k + 2)..Len(s) : IsLetter(s[i]) \/ s[i] = "|"

\* /^[A-Za-z]+\(.*\)$/
PatternToolWithArgs(s) ==
    \E k \in 1..(Len(s) - 2) :
        /\ \A i \in 1..k : IsLetter(s[i])
        /\ s[k + 1] = "("
        /\ \A i \in (k + 2)..(Len(s) - 1) : IsDot(s[i])
        /\ s[Len(s)] = ")"

MatcherEmptyMsg == [msg |-> "matcher must not be empty"]
MatcherSyntaxMsg == [msg |-> "matcher syntax may be incorrect"]

validateMatcher(matcher) ==
    IF ~Truthy(matcher) \/ matcher.t # "string"
    THEN [valid |-> FALSE, error |-> MatcherEmptyMsg]
    ELSE LET isValid ==
                 \/ PatternWildcard(matcher.s)
                 \/ PatternSingleTool(matcher.s)
                 \/ PatternMultiTool(matcher.s)
                 \/ PatternToolWithArgs(matcher.s)
         IN  [valid |-> isValid,
              error |-> IF isValid THEN Absent ELSE MatcherSyntaxMsg]

-----------------------------------------------------------------------------
(* validateTimeout *)

\* t < r / d in JavaScript's (real) division, for integers t and r, d > 0
LessThanQuotient(t, r, d) ==
    \/ t < r \div d
    \/ (t = r \div d /\ r % d > 0)

TimeoutUnsetMsg == [msg |-> "timeout not set, the default will be used"]
TimeoutNotPositiveMsg(timeout) ==
    [msg |-> "timeout must be a positive number", current |-> timeout]
TimeoutTooLargeMsg(timeout) ==
    [msg |-> "timeout exceeds the maximum", max |-> TimeoutMax,
     current |-> timeout]
TimeoutTooShortMsg(timeout, recommended) ==
    [msg |-> "timeout may be too short", current |-> timeout,
     recommended |-> recommended]

\* CONFIG.timeout.recommended[lifecycle]
RecommendedFor(lifecycle) ==
    IF lifecycle \in DOMAIN Recommended
    THEN Num(Recommended[lifecycle]) ELSE Undef

MutTooShort(timeout, recommended) ==
    Truthy(recommended) /\ timeout.n < recommended.n

\* recommended && timeout < recommended / 10
TooShort(timeout, recommended) ==
    Truthy(recommended) /\ LessThanQuotient(timeout.n, recommended.n, 10)

MutBelowMin(timeout) ==
    timeout.t # "number" \/ timeout.n <= TimeoutMin

\* typeof timeout !== "number" || timeout < CONFIG.timeout.min
BelowMin(timeout) ==
    timeout.t # "number" \/ timeout.n < TimeoutMin

MutValidateTimeout(timeout, lifecycle) ==
    IF timeout.t \in {"undefined", "null"}
    THEN [valid |-> TRUE, error |-> Absent, warning |-> Absent]
    ELSE IF BelowMin(timeout)
    THEN [valid |-> FALSE, error |-> TimeoutNotPositiveMsg(timeout),
          warning |-> Absent]
    ELSE IF timeout.n > TimeoutMax
    THEN [valid |-> FALSE, error |-> TimeoutTooLargeMsg(timeout),
          warning |-> Absent]
    ELSE [valid |-> TRUE, error |-> Absent, warning |-> Absent]

validateTimeout(timeout, lifecycle) ==
    IF timeout.t \in {"undefined", "null"}
    THEN [valid |-> TRUE, error |-> Absent, warning |-> TimeoutUnsetMsg]
    ELSE IF BelowMin(timeout)
    THEN [valid |-> FALSE, error |-> TimeoutNotPositiveMsg(timeout),
          warning |-> Absent]
    ELSE IF timeout.n > TimeoutMax
    THEN [valid |-> FALSE, error |-> TimeoutTooLargeMsg(timeout),
          warning |-> Absent]
    ELSE IF TooShort(timeout, RecommendedFor(lifecycle))
    THEN [valid |-> TRUE, error |-> Absent,
          warning |-> TimeoutTooShortMsg(timeout, RecommendedFor(lifecycle))]
    ELSE [valid |-> TRUE, error |-> Absent, warning |-> Absent]

-----------------------------------------------------------------------------
(* validateScriptPath *)

Min(S) == CHOOSE x \in S : \A y \in S : x <= y

\* \s
IsSpace(tok) == tok \in {" ", "\t"}

\* ["']
IsQuote(tok) == tok \in {"\"", "'"}

\* [^"'\s]
IsPlain(tok) == ~IsSpace(tok) /\ ~IsQuote(tok)

\* A word that ends with node, python, python3 or bash in any letter case
\* (the regular expression is not anchored and has the i flag).
InterpreterWords == {"node", "NODE", "python", "python3", "bash", "mynode"}

EndsWithInterpreter(tok) == tok \in InterpreterWords

\* The index of the first token after i that is not white space.
FirstNonSpace(cmd, i) ==
    LET rest == {j \in (i + 1)..Len(cmd) : ~IsSpace(cmd[j])}
    IN  IF rest = {} THEN Len(cmd) + 1 ELSE Min(rest)

\* Where group 1 starts when the interpreter word is token i; 0: no match at i.
\* \s+ needs one white space at least, ["']? takes a quote if there is one,
\* and ([^"'\s]+) needs one plain token at least.
CaptureStart(cmd, i) ==
    LET j == FirstNonSpace(cmd, i)
    IN  IF j = i + 1 \/ j > Len(cmd) THEN 0
        ELSE IF IsQuote(cmd[j])
        THEN IF j + 1 <= Len(cmd) /\ IsPlain(cmd[j + 1]) THEN j + 1 ELSE 0
        ELSE j

\* The last token of the greedy run of plain tokens that starts at p.
CaptureEnd(cmd, p) ==
    LET stops == {j \in p..Len(cmd) : ~IsPlain(cmd[j])}
    IN  IF stops = {} THEN Len(cmd) ELSE Min(stops) - 1

\* command.match(/(?:node|python3?|bash)\s+["']?([^"'\s]+)/i): group 1 of the
\* leftmost match, or Null.
MatchScript(cmd) ==
    LET starts == {i \in 1..Len(cmd) :
                       EndsWithInterpreter(cmd[i]) /\ CaptureStart(cmd, i) # 0}
    IN  IF starts = {} THEN Null
        ELSE LET p == CaptureStart(cmd, Min(starts))
             IN  Str(SubSeq(cmd, p, CaptureEnd(cmd, p)))

Platforms == {"linux", "win32"}

\* path.sep
Sep(plat) == IF plat = "win32" THEN "\\" ELSE "/"

\* os.homedir()
HomeDir(plat) ==
    IF plat = "win32" THEN <<"C:", "\\", "home">> ELSE <<"/", "home">>

\* process.env: SET is set, UNSET is not.
Env == [SET |-> <<"/", "opt">>]

EnvOr(key) == IF key \in DOMAIN Env THEN Env[key] ELSE <<>>

\* scriptPath.replace(/\//g, "\\")
ReplaceSlashes(p) ==
    [i \in 1..Len(p) |-> IF p[i] = "/" THEN "\\" ELSE p[i]]

RECURSIVE Normalize(_, _)
\* path.normalize, as far as path.join applies it here: runs of separators
\* collapse into one.
Normalize(p, sep) ==
    IF Len(p) <= 1 THEN p
    ELSE IF p[1] = sep /\ p[2] = sep THEN Normalize(Tail(p), sep)
    ELSE <<p[1]>> \o Normalize(Tail(p), sep)

\* path.join(a, b)
PathJoin(a, b, plat) ==
    IF b = <<>> THEN a ELSE Normalize(a \o <<Sep(plat)>> \o b, Sep(plat))

\* if (scriptPath.startsWith("~")) scriptPath = path.join(os.homedir(), scriptPath.slice(1))
ExpandHome(p, plat) ==
    IF p # <<>> /\ p[1] = "~" THEN PathJoin(HomeDir(plat), Tail(p), plat) ELSE p

RECURSIVE ExpandPercent(_)
\* scriptPath.replace(/%([^%]+)%/g, (_, key) => process.env[key] || "")
ExpandPercent(p) ==
    IF p = <<>> THEN <<>>
    ELSE (CASE p[1] = "%SET%" -> EnvOr("SET")
            [] p[1] = "%UNSET%" -> EnvOr("UNSET")
            [] OTHER -> <<p[1]>>) \o ExpandPercent(Tail(p))

RECURSIVE ExpandDollar(_)
\* scriptPath.replace(/\$([A-Za-z_][A-Za-z0-9_]*)/g, (_, key) => process.env[key] || "")
ExpandDollar(p) ==
    IF p = <<>> THEN <<>>
    ELSE (CASE p[1] = "$SET" -> EnvOr("SET")
            [] p[1] = "$UNSET" -> EnvOr("UNSET")
            [] OTHER -> <<p[1]>>) \o ExpandDollar(Tail(p))

\* The script path after the Windows, ~ and environment-variable steps.
ResolveScriptPath(p, plat) ==
    ExpandDollar(ExpandPercent(ExpandHome(
        IF plat = "win32" THEN ReplaceSlashes(p) ELSE p, plat)))

\* fs.existsSync
ExistsSync(p, dsk) == p \in dsk

ScriptUnparsableMsg == [msg |-> "cannot parse the script path"]
ScriptMissingMsg == [msg |-> "script file not found"]

\* command.match is a function of strings only: any other command value throws.
validateScriptPath(command, dsk, plat) ==
    IF command.t # "string" THEN Threw
    ELSE LET match == MatchScript(command.s)
         IN  IF match = Null
             THEN [threw |-> FALSE, valid |-> FALSE,
                   error |-> ScriptUnparsableMsg, path |-> Null]
             ELSE LET scriptPath == ResolveScriptPath(match.s, plat)
                      exists == ExistsSync(scriptPath, dsk)
                  IN  [threw |-> FALSE, valid |-> exists,
                       error |-> IF exists THEN Absent ELSE ScriptMissingMsg,
                       path |-> Str(scriptPath)]

-----------------------------------------------------------------------------
(* validateHook *)

InvalidTypeMsg(type) == [msg |-> "invalid hook type", type |-> type]
MissingCommandMsg == [msg |-> "missing command field"]

MutPathIssue(pathResult, command) ==
    [msg |-> pathResult.error.msg, cited |-> command]

\* `${pathResult.error}: ${pathResult.path || hook.command}`
PathIssue(pathResult, command) ==
    [msg |-> pathResult.error.msg,
     cited |-> IF Truthy(pathResult.path) THEN pathResult.path ELSE command]

\* !hook.type || !CONFIG.validHookTypes.includes(hook.type)
TypeIssues(hook) ==
    LET type == Get(hook, "type")
    IN  IF ~Truthy(type) \/ type \notin validHookTypes
        THEN <<InvalidTypeMsg(type)>> ELSE <<>>

\* The command part of validateHook: the issues it pushes, unless it throws.
MutCommandIssues(hook, dsk, plat) ==
    LET command == Get(hook, "command")
    IN  IF ~Truthy(command)
        THEN [threw |-> FALSE, issues |-> <<MissingCommandMsg>>]
        ELSE LET pathResult == validateScriptPath(command, dsk, plat)
             IN  IF pathResult.threw THEN Threw
                 ELSE [threw |-> FALSE,
                       issues |-> IF ~pathResult.valid /\ pathResult.path # Null
                                  THEN <<PathIssue(pathResult, command)>>
                                  ELSE <<>>]

CommandIssues(hook, dsk, plat) ==
    LET command == Get(hook, "command")
    IN  IF ~Truthy(command)
        THEN [threw |-> FALSE, issues |-> <<MissingCommandMsg>>]
        ELSE LET pathResult == validateScriptPath(command, dsk, plat)
             IN  IF pathResult.threw THEN Threw
                 ELSE [threw |-> FALSE,
                       issues |-> IF ~pathResult.valid
                                  THEN <<PathIssue(pathResult, command)>>
                                  ELSE <<>>]

TimeoutIssues(timeoutResult) ==
    IF ~timeoutResult.valid THEN <<timeoutResult.error>> ELSE <<>>

TimeoutWarnings(timeoutResult) ==
    IF timeoutResult.valid /\ timeoutResult.warning # Absent
    THEN <<timeoutResult.warning>> ELSE <<>>

validateHook(hook, lifecycle, dsk, plat) ==
    IF IsNullish(hook) THEN Threw
    ELSE LET commandIssues == CommandIssues(hook, dsk, plat)
             timeoutResult == validateTimeout(Get(hook, "timeout"), lifecycle)
         IN  IF commandIssues.threw THEN Threw
             ELSE [threw |-> FALSE,
                   issues |-> TypeIssues(hook) \o commandIssues.issues
                                  \o TimeoutIssues(timeoutResult),
                   warnings |-> TimeoutWarnings(timeoutResult)]

-----------------------------------------------------------------------------
(* validateHooksConfig *)

NoHooksMsg == [msg |-> "hooks configuration not found"]
UnknownLifecycleMsg(lifecycle) ==
    [msg |-> "unknown lifecycle event", lifecycle |-> lifecycle]
NotArrayMsg == [msg |-> "hooks configuration should be an array"]
MissingHooksArrayMsg == [msg |-> "missing hooks array"]

\* typeof v === "object"
TypeofObject(v) == v.t \in {"object", "array", "null"}

\* Object.entries(config.hooks): the [key, value] pairs in property order.
\* An object carries them in field props; an array's keys are its indices.
ObjectEntries(v) ==
    IF v.t = "array"
    THEN [i \in 1..Len(v.items) |->
              [key |-> ToString(i - 1), value |-> v.items[i]]]
    ELSE v.props

\* F(x) and F(x, y) with the arguments evaluated once, before F.
Strict1(F(_), x) == CHOOSE r \in {F(a) : a \in {x}} : TRUE
Strict2(F(_, _), x, y) == CHOOSE r \in {F(a, b) : a \in {x}, b \in {y}} : TRUE

\* One turn of the loop over entry.hooks, before the turns that follow it:
\* entryResult.issues.push(...hookResult.issues),
\* entryResult.warnings.push(...hookResult.warnings), results.summary.hooks++.
HooksTurn(hookResult, rest) ==
    IF hookResult.threw \/ rest.threw THEN Threw
    ELSE [threw |-> FALSE,
          issues |-> hookResult.issues \o rest.issues,
          warnings |-> hookResult.warnings \o rest.warnings,
          hooks |-> 1 + rest.hooks]

RECURSIVE HooksLoop(_, _, _, _)
\* for (let j = 0; j < entry.hooks.length; j++): the issues and warnings
\* pushed and the hooks counted, unless validateHook throws.
HooksLoop(hooks, lifecycle, dsk, plat) ==
    IF hooks = <<>>
    THEN [threw |-> FALSE, issues |-> <<>>, warnings |-> <<>>, hooks |-> 0]
    ELSE Strict2(HooksTurn,
                 validateHook(Head(hooks), lifecycle, dsk, plat),
                 HooksLoop(Tail(hooks), lifecycle, dsk, plat))

\* if (!matcherResult.valid) entryResult.issues.push(matcherResult.error)
MatcherIssues(matcherResult) ==
    IF ~matcherResult.valid THEN <<matcherResult.error>> ELSE <<>>

\* The entryResult of an entry with a hooks array, given its loop over it.
EntryWithHooks(index, matcher, loop) ==
    IF loop.threw THEN Threw
    ELSE [threw |-> FALSE, hooks |-> loop.hooks,
          entryResult |->
              [index |-> index, matcher |-> matcher,
               issues |-> MatcherIssues(validateMatcher(matcher)) \o loop.issues,
               warnings |-> loop.warnings]]

\* One turn of the loop over entries: the entryResult and the hooks counted,
\* unless reading entry.matcher or validateHook throws.
ValidateEntry(entry, index, lifecycle, dsk, plat) ==
    IF IsNullish(entry) THEN Threw
    ELSE LET matcher == Get(entry, "matcher")
             hooks == Get(entry, "hooks")
         IN  IF ~Truthy(hooks) \/ hooks.t # "array"
             THEN [threw |-> FALSE, hooks |-> 0,
                   entryResult |->
                       [index |-> index, matcher |-> matcher,
                        issues |-> MatcherIssues(validateMatcher(matcher))
                                       \o <<MissingHooksArrayMsg>>,
                        warnings |-> <<>>]]
             ELSE LET WithLoop(loop) == EntryWithHooks(index, matcher, loop)
                  IN  Strict1(WithLoop,
                              HooksLoop(hooks.items, lifecycle, dsk, plat))

\* One turn of the loop over entries, before the turns that follow it:
\* lifecycleResult.valid, results.summary.errors and .warnings,
\* lifecycleResult.entries.push(entryResult).
MutEntriesTurn(one, rest) ==
    IF one.threw \/ rest.threw THEN Threw
    ELSE [threw |-> FALSE,
          valid |-> Len(one.entryResult.issues) = 0 /\ rest.valid,
          entries |-> <<one.entryResult>> \o rest.entries,
          errors |-> (IF one.entryResult.issues = <<>> THEN 0 ELSE 1)
                         + rest.errors,
          warnings |-> Len(one.entryResult.warnings) + rest.warnings,
          hooks |-> one.hooks + rest.hooks]

EntriesTurn(one, rest) ==
    IF one.threw \/ rest.threw THEN Threw
    ELSE [threw |-> FALSE,
          valid |-> Len(one.entryResult.issues) = 0 /\ rest.valid,
          entries |-> <<one.entryResult>> \o rest.entries,
          errors |-> Len(one.entryResult.issues) + rest.errors,
          warnings |-> Len(one.entryResult.warnings) + rest.warnings,
          hooks |-> one.hooks + rest.hooks]

RECURSIVE EntriesLoop(_, _, _, _, _)
\* for (let i = 0; i < entries.length; i++): the lifecycleResult and what the
\* loop adds to results.summary, unless a turn throws.
EntriesLoop(entries, index, lifecycle, dsk, plat) ==
    IF entries = <<>>
    THEN [threw |-> FALSE, valid |-> TRUE, entries |-> <<>>,
          errors |-> 0, warnings |-> 0, hooks |-> 0]
    ELSE Strict2(EntriesTurn,
                 ValidateEntry(Head(entries), index, lifecycle, dsk, plat),
                 EntriesLoop(Tail(entries), index + 1, lifecycle, dsk, plat))

\* The turn of a lifecycle whose value is an array, given its loop over it.
LifecycleWithEntries(lifecycle, loop) ==
    IF loop.threw THEN Threw
    ELSE [threw |-> FALSE, clearsValid |-> ~loop.valid,
          errors |-> loop.errors, warnings |-> loop.warnings,
          hooks |-> loop.hooks,
          result |-> [key |-> lifecycle, valid |-> loop.valid,
                      error |-> Absent, entries |-> loop.entries]]

\* One turn of the loop over Object.entries(config.hooks): the value stored
\* in results.lifecycles[lifecycle], what the turn adds to results.summary and
\* whether it clears results.valid.
ValidateLifecycle(lifecycle, entries, dsk, plat) ==
    IF lifecycle \notin validLifecycles
    THEN [threw |-> FALSE, clearsValid |-> FALSE,
          errors |-> 1, warnings |-> 0, hooks |-> 0,
          result |-> [key |-> lifecycle, valid |-> FALSE,
                      error |-> UnknownLifecycleMsg(lifecycle),
                      entries |-> <<>>]]
    ELSE IF entries.t # "array"
    THEN [threw |-> FALSE, clearsValid |-> FALSE,
          errors |-> 1, warnings |-> 0, hooks |-> 0,
          result |-> [key |-> lifecycle, valid |-> FALSE,
                      error |-> NotArrayMsg, entries |-> <<>>]]
    ELSE LET WithLoop(loop) == LifecycleWithEntries(lifecycle, loop)
         IN  Strict1(WithLoop,
                     EntriesLoop(entries.items, 0, lifecycle, dsk, plat))

MutLifecyclesTurn(one, rest) ==
    IF one.threw THEN Threw
    ELSE IF one.result.error # Absent
    THEN [threw |-> FALSE, valid |-> TRUE, lifecycles |-> <<one.result>>,
          errors |-> one.errors, warnings |-> 0, hooks |-> 0]
    ELSE IF rest.threw THEN Threw
    ELSE [threw |-> FALSE,
          valid |-> ~one.clearsValid /\ rest.valid,
          lifecycles |-> <<one.result>> \o rest.lifecycles,
          errors |-> one.errors + rest.errors,
          warnings |-> one.warnings + rest.warnings,
          hooks |-> one.hooks + rest.hooks]

\* One turn of the loop over the lifecycles, before the turns that follow it.
LifecyclesTurn(one, rest) ==
    IF one.threw \/ rest.threw THEN Threw
    ELSE [threw |-> FALSE,
          valid |-> ~one.clearsValid /\ rest.valid,
          lifecycles |-> <<one.result>> \o rest.lifecycles,
          errors |-> one.errors + rest.errors,
          warnings |-> one.warnings + rest.warnings,
          hooks |-> one.hooks + rest.hooks]

RECURSIVE LifecyclesLoop(_, _, _)
\* for (const [lifecycle, entries] of Object.entries(config.hooks))
LifecyclesLoop(pairs, dsk, plat) ==
    IF pairs = <<>>
    THEN [threw |-> FALSE, valid |-> TRUE, lifecycles |-> <<>>,
          errors |-> 0, warnings |-> 0, hooks |-> 0]
    ELSE Strict2(LifecyclesTurn,
                 ValidateLifecycle(pairs[1].key, pairs[1].value, dsk, plat),
                 LifecyclesLoop(Tail(pairs), dsk, plat))

\* The report of a configuration with a hooks object, given the loop over it.
ReportOf(source, loop) ==
    IF loop.threw THEN Threw
    ELSE [threw |-> FALSE, source |-> source,
          valid |-> loop.valid, error |-> Absent,
          lifecycles |-> loop.lifecycles,
          summary |-> [errors |-> loop.errors, warnings |-> loop.warnings,
                       hooks |-> loop.hooks]]

MutNoHooksReport(source) ==
    [threw |-> FALSE, source |-> source, valid |-> TRUE,
     error |-> Absent, lifecycles |-> <<>>,
     summary |-> [errors |-> 0, warnings |-> 0, hooks |-> 0]]

\* results.valid = false; results.error = ...; return results
NoHooksReport(source) ==
    [threw |-> FALSE, source |-> source, valid |-> FALSE,
     error |-> NoHooksMsg, lifecycles |-> <<>>,
     summary |-> [errors |-> 0, warnings |-> 0, hooks |-> 0]]

\* The report, or Threw.  results.lifecycles is the sequence of the lifecycle
\* results in property order, each with its key.
validateHooksConfig(config, source, dsk, plat) ==
    IF IsNullish(config) THEN Threw
    ELSE LET hooks == Get(config, "hooks")
             WithLoop(loop) == ReportOf(source, loop)
         IN  IF ~Truthy(hooks) \/ ~TypeofObject(hooks)
             THEN NoHooksReport(source)
             ELSE Strict1(WithLoop,
                          LifecyclesLoop(ObjectEntries(hooks), dsk, plat))

\* The line printReport ends with: "error" when it stops at results.error.
PrintReportVerdict(results) ==
    IF results.error # Absent THEN "error"
    ELSE IF results.valid /\ results.summary.warnings = 0 THEN "passed"
    ELSE IF results.valid THEN "passed with warnings"
    ELSE "failed"

-----------------------------------------------------------------------------
(* Inputs *)

\* Longest matcher string drawn, in characters.
MaxMatcherLen == 4
\* Largest timeout drawn.
MaxTimeout == 701
\* Most lifecycle keys in a hooks object drawn.
MaxLifecycles == 2

SeqsUpTo(S, n) == UNION {[1..k -> S] : k \in 0..n}

MatcherAlphabet == {"a", "B", "|", "(", ")", "*", "!"}

MatcherUniverse ==
    {Undef, Null, Num(5)}
        \cup {Str(s) : s \in SeqsUpTo(MatcherAlphabet, MaxMatcherLen)}

Hook(type, command, timeout) ==
    [t |-> "object", type |-> type, command |-> command, timeout |-> timeout]

TypeCommand == Str(<<"command">>)

ScriptFile == <<"/", "hooks", "/", "a.js">>
CmdOk == Str(<<"node", " ">> \o ScriptFile)

\* Script paths as written in commands.
ScriptPaths ==
    {ScriptFile,                          \* absolute
     <<"hooks", "/", "a.js">>,            \* relative
     <<"~", "/", "a.js">>,                \* home shorthand
     <<"~">>,
     <<"$SET", "/", "a.js">>,             \* POSIX placeholder
     <<"%SET%", "/", "a.js">>,            \* Windows placeholder
     <<"$UNSET">>,                        \* expands to nothing
     <<"$UNSET", "/", "a.js">>}

CommandUniverse ==
    {Undef, Num(5), Str(<<>>),
     Str(<<"echo", " ", "hi">>),          \* no interpreter
     Str(<<"node">>),                     \* interpreter without a path
     Str(<<"node", " ", "\"", "\"">>),
     Str(<<"mynode", " ", "\"", "hooks", "/", "a.js", "\"", " ", "x">>),
     Str(<<"timeout", " ", "5", " ", "bash", "\t", "gone.sh">>)}
        \cup {Str(<<i, " ">> \o p) : i \in {"node", "python3"}, p \in ScriptPaths}

\* The files fs.existsSync may find.
KnownFiles == {ScriptFile, <<"hooks", "/", "a.js">>, <<"/", "home", "/", "a.js">>}

HookUniverse ==
    {Null, Num(5)}
        \cup {Hook(ty, c, to) :
                  ty \in {TypeCommand, Str(<<"prompt">>), Undef},
                  c \in CommandUniverse,
                  to \in {Undef, Null, Str(<<"30">>), Num(0), Num(3),
                          Num(300), Num(700)}}

TimeoutUniverse ==
    {Undef, Null, Str(<<"30">>), Bool(TRUE)}
        \cup {Num(n) : n \in (0 - 1)..MaxTimeout}

\* The hook actions, matcher entries and lifecycle values of the
\* configurations drawn.
HkOk == Hook(TypeCommand, CmdOk, Num(300))
HkNoTimeout == Hook(TypeCommand, CmdOk, Undef)
HkTooLong == Hook(TypeCommand, CmdOk, Num(700))
HkShort == Hook(TypeCommand, CmdOk, Num(3))
HkNullTimeout == Hook(TypeCommand, CmdOk, Null)
HkMissing ==
    Hook(TypeCommand, Str(<<"node", " ", "hooks", "/", "gone.js">>), Num(30))

\* A command without an interpreter whose text holds the word timeout.
HkTimeoutWord ==
    Hook(TypeCommand, Str(<<"timeout", " ", "5", " ", "echo">>), Num(30))

CfgHooks ==
    {HkOk, HkNoTimeout, HkNullTimeout, HkTooLong, HkShort, HkMissing,
     HkTimeoutWord, Null}

Entry(matcher, hooks) ==
    [t |-> "object", matcher |-> matcher, hooks |-> hooks]

Star == Str(<<"*">>)
BadMatcher == Str(<<"b", "a", "d", " ", "!", "!">>)

CfgEntries ==
    {Null, Num(5), Entry(Star, Undef),
     Entry(BadMatcher, Arr(<<HkOk>>)), Entry(BadMatcher, Arr(<<HkNoTimeout>>)),
     Entry(Undef, Arr(<<HkOk>>)),
     Entry(Star, Arr(<<HkNoTimeout, HkTooLong>>)),
     Entry(Star, Arr(<<HkNoTimeout, HkNoTimeout>>))}
        \cup {Entry(Star, Arr(<<h>>)) : h \in CfgHooks}

LifecycleValues ==
    {Str(<<"x">>), Arr(<<>>),
     Arr(<<Null, Entry(Star, Arr(<<HkOk>>))>>),
     Arr(<<Entry(BadMatcher, Arr(<<HkOk>>)), Entry(Star, Arr(<<HkShort>>))>>)}
        \cup {Arr(<<e>>) : e \in CfgEntries}

LifecycleKeys == {"PreToolUse", "PostToolUse", "Bogus"}

\* A JSON object holds each key once.
DistinctKeys(pairs) ==
    \A i, j \in 1..Len(pairs) : i # j => pairs[i].key # pairs[j].key

HooksObjects ==
    {[t |-> "object", props |-> pairs] :
         pairs \in {q \in SeqsUpTo([key : LifecycleKeys, value : LifecycleValues],
                                   MaxLifecycles) : DistinctKeys(q)}}

Config(hooks) == [t |-> "object", hooks |-> hooks]

ConfigUniverse ==
    {Null, Num(5), [t |-> "object"], [t |-> "object", model |-> Str(<<"m">>)],
     Config(Null), Config(Str(<<"x">>)),
     Config(Arr(<<Arr(<<>>)>>))}
        \cup {Config(h) : h \in HooksObjects}

-----------------------------------------------------------------------------
(* Calls of one function *)

\* validate-agents main has not started.
AgentsIdle ==
    /\ fileList = <<>>
    /\ fileIndex = 0
    /\ hasErrors = FALSE
    /\ totalWarnings = 0
    /\ output = <<>>
    /\ scan = [index |-> 0]

MainIdle ==
    /\ AgentsIdle
    /\ argv = <<>>
    /\ files = <<>>
    /\ pc = "idle"
    /\ allResults = <<>>
    /\ exit = [exited |-> FALSE]

InitMatcher ==
    /\ MainIdle
    /\ disk = {}
    /\ platform = "linux"
    /\ call \in {[fn |-> "validateMatcher", matcher |-> m] : m \in MatcherUniverse}
    /\ ret = Pending

RunValidateMatcher ==
    /\ call.fn = "validateMatcher"
    /\ ret = Pending
    /\ ret' = validateMatcher(call.matcher)
    /\ UNCHANGED <<argv, files, disk, platform, pc, allResults, exit, call, agentsLocals>>

SpecMatcher == InitMatcher /\ [][RunValidateMatcher]_vars

InitHook ==
    /\ MainIdle
    /\ disk \in {{}, {ScriptFile}, KnownFiles}
    /\ platform \in Platforms
    /\ call \in {[fn |-> "validateHook", hook |-> h, lifecycle |-> l] :
                     h \in HookUniverse,
                     l \in {"PreToolUse", "PostToolUse", "Notification"}}
    /\ ret = Pending

InitTimeout ==
    /\ MainIdle
    /\ disk = {ScriptFile}
    /\ platform = "linux"
    /\ call \in {[fn |-> "validateHook",
                  hook |-> Hook(TypeCommand, CmdOk, to), lifecycle |-> l] :
                     to \in TimeoutUniverse, l \in validLifecycles}
    /\ ret = Pending

RunValidateHook ==
    /\ call.fn = "validateHook"
    /\ ret = Pending
    /\ ret' = validateHook(call.hook, call.lifecycle, disk, platform)
    /\ UNCHANGED <<argv, files, disk, platform, pc, allResults, exit, call, agentsLocals>>

SpecHook == InitHook /\ [][RunValidateHook]_vars

SpecTimeout == InitTimeout /\ [][RunValidateHook]_vars

InitConfig ==
    /\ MainIdle
    /\ disk \in {{}, {ScriptFile}}
    /\ platform = "linux"
    /\ call \in {[fn |-> "validateHooksConfig", config |-> c] :
                     c \in ConfigUniverse}
    /\ ret = Pending

RunValidateHooksConfig ==
    /\ call.fn = "validateHooksConfig"
    /\ ret = Pending
    /\ ret' = validateHooksConfig(call.config, "settings.json", disk, platform)
    /\ UNCHANGED <<argv, files, disk, platform, pc, allResults, exit, call, agentsLocals>>

SpecConfig == InitConfig /\ [][RunValidateHooksConfig]_vars

-----------------------------------------------------------------------------
(* main *)

\* A settings file: not there, not JSON, or JSON text of a value.
Missing == [t |-> "ENOENT"]
Garbage == [t |-> "garbage"]
Json(data) == [t |-> "json", data |-> data]

\* getConfigPaths
GlobalPath == "~/.claude/settings.json"
ProjectLocalPath == "./.claude/settings.local.json"
ProjectPath == "./.claude/settings.json"

readJsonFile(file, filePath) ==
    IF file.t = "json"
    THEN [success |-> TRUE, data |-> file.data, error |-> "", path |-> filePath]
    ELSE IF file.t = "ENOENT"
    THEN [success |-> FALSE, data |-> Undef, error |-> "file does not exist",
          path |-> filePath]
    ELSE [success |-> FALSE, data |-> Undef, error |-> "JSON parse error",
          path |-> filePath]

Includes(args, word) == \E i \in 1..Len(args) : args[i] = word

\* args.includes("--global") || args.length === 0
CheckGlobalSelected(args) == Includes(args, "--global") \/ Len(args) = 0

\* args.includes("--project") || args.length === 0
CheckProjectSelected(args) == Includes(args, "--project") \/ Len(args) = 0

RECURSIVE SumErrors(_)
\* allResults.reduce((sum, r) => sum + r.summary.errors, 0)
SumErrors(results) ==
    IF results = <<>> THEN 0
    ELSE Head(results).summary.errors + SumErrors(Tail(results))

RECURSIVE SumWarnings(_)
SumWarnings(results) ==
    IF results = <<>> THEN 0
    ELSE Head(results).summary.warnings + SumWarnings(Tail(results))

RECURSIVE SumHooks(_)
SumHooks(results) ==
    IF results = <<>> THEN 0
    ELSE Head(results).summary.hooks + SumHooks(Tail(results))

\* The status main hands to process.exit.
ExitStatus(totalErrors) == IF totalErrors = 0 THEN 0 ELSE 1

\* An uncaught exception ends the process with status 1.
Crash ==
    /\ pc' = "crashed"
    /\ exit' = [exited |-> TRUE, code |-> 1]
    /\ UNCHANGED allResults

\* validateHooksConfig, allResults.push, printReport, printSuggestions
ValidateSource(config, next) ==
    \E results \in {validateHooksConfig(config.data, config.path, disk, platform)} :
        IF results.threw THEN Crash
        ELSE /\ allResults' = Append(allResults, results)
             /\ pc' = next
             /\ UNCHANGED exit

Skip(next) ==
    /\ pc' = next
    /\ UNCHANGED <<allResults, exit>>

\* if (checkGlobal) { ... }
CheckGlobal ==
    /\ pc = "checkGlobal"
    /\ LET globalConfig == readJsonFile(files.global, GlobalPath)
       IN  IF CheckGlobalSelected(argv) /\ globalConfig.success
           THEN ValidateSource(globalConfig, "checkProject")
           ELSE Skip("checkProject")
    /\ UNCHANGED <<argv, files, disk, platform, call, ret, agentsLocals>>

\* if (checkProject) { ... }: settings.local.json first, settings.json when
\* that could not be loaded.
MutCheckProject ==
    /\ pc = "checkProject"
    /\ LET projectConfig == readJsonFile(files.projectLocal, ProjectLocalPath)
       IN  IF CheckProjectSelected(argv) /\ projectConfig.success
           THEN ValidateSource(projectConfig, "summary")
           ELSE Skip("summary")
    /\ UNCHANGED <<argv, files, disk, platform, call, ret, agentsLocals>>

CheckProject ==
    /\ pc = "checkProject"
    /\ LET local == readJsonFile(files.projectLocal, ProjectLocalPath)
           projectConfig ==
               IF ~local.success
               THEN readJsonFile(files.project, ProjectPath) ELSE local
       IN  IF CheckProjectSelected(argv) /\ projectConfig.success
           THEN ValidateSource(projectConfig, "summary")
           ELSE Skip("summary")
    /\ UNCHANGED <<argv, files, disk, platform, call, ret, agentsLocals>>

\* The final summary (the number of configuration files checked and the
\* three totals, printed) and process.exit.
Summary ==
    /\ pc = "summary"
    /\ pc' = "exited"
    /\ output' = <<[sources |-> Len(allResults),
                     hooks |-> SumHooks(allResults),
                     errors |-> SumErrors(allResults),
                     warnings |-> SumWarnings(allResults)]>>
    /\ exit' = [exited |-> TRUE, code |-> ExitStatus(SumErrors(allResults))]
    /\ UNCHANGED <<argv, files, disk, platform, allResults, call, ret,
                   fileList, fileIndex, hasErrors, totalWarnings, scan>>

HooksObject(pairs) == [t |-> "object", props |-> pairs]

MainEntries ==
    {Null, Entry(BadMatcher, Arr(<<HkOk>>)), Entry(Star, Arr(<<HkOk>>)),
     Entry(Star, Arr(<<HkNoTimeout>>)), Entry(Star, Arr(<<HkShort>>)),
     Entry(Star, Arr(<<HkMissing>>)),
     Entry(BadMatcher, Arr(<<HkNoTimeout, HkTooLong>>))}

MainConfigs ==
    {Null, [t |-> "object"], Config(HooksObject(<<>>)),
     Config(HooksObject(<<[key |-> "Bogus", value |-> Arr(<<>>)]>>)),
     Config(HooksObject(<<[key |-> "PostToolUse", value |-> Str(<<"x">>)]>>))}
        \cup {Config(HooksObject(<<[key |-> "PostToolUse", value |-> Arr(<<e>>)]>>)) :
                  e \in MainEntries}

FileUniverse == {Missing, Garbage} \cup {Json(c) : c \in MainConfigs}

ArgvUniverse ==
    {<<>>, <<"--global">>, <<"--project">>, <<"--global", "--project">>,
     <<"--verbose">>}

Init ==
    /\ AgentsIdle
    /\ argv \in ArgvUniverse
    /\ files \in [global : FileUniverse, projectLocal : FileUniverse,
                  project : FileUniverse]
    /\ disk \in {{}, {ScriptFile}}
    /\ platform = "linux"
    /\ pc = "checkGlobal"
    /\ allResults = <<>>
    /\ exit = [exited |-> FALSE]
    /\ call = [fn |-> "main"]
    /\ ret = Pending

Next == CheckGlobal \/ CheckProject \/ Summary

Spec == Init /\ [][Next]_vars

-----------------------------------------------------------------------------
(* Properties *)

\* The number of elements of seq that satisfy P.
Count(seq, P(_)) == Cardinality({i \in 1..Len(seq) : P(seq[i])})

\* The lifecycle results of a report that carry a lifecycle-level error.
LifecycleErrors(report) ==
    {i \in 1..Len(report.lifecycles) : report.lifecycles[i].error # Absent}

\* A report holds an error of some kind: top-level, lifecycle-level or entry-level.
HasAnyError(report) ==
    \/ report.error # Absent
    \/ LifecycleErrors(report) # {}
    \/ \E i \in 1..Len(report.lifecycles) :
           \E j \in 1..Len(report.lifecycles[i].entries) :
               report.lifecycles[i].entries[j].issues # <<>>

\* C1: once main has processed the selected sources and exited, the exit
\* code is 1 if and only if some checked source's report holds at least one
\* error of any kind (top-level, lifecycle-level or entry-level).
C1_ExitOneIffAnyError ==
    pc = "exited" =>
        (exit.code = 1 <=>
             \E i \in 1..Len(allResults) : HasAnyError(allResults[i]))

\* The report of a finished validateHooksConfig call that did not throw.
Reported ==
    /\ call.fn = "validateHooksConfig"
    /\ ret # Pending
    /\ ~ret.threw

IsMatcherSyntaxMsg(m) == m = MatcherSyntaxMsg

\* The matcher is a non-empty string outside the four accepted shapes.
FailsGrammar(matcher) ==
    /\ matcher.t = "string"
    /\ matcher.s # <<>>
    /\ ~validateMatcher(matcher).valid

\* C2: an entry whose matcher string fails the grammar check gets exactly
\* one warning for it and no error: the syntax remark is among the entry's
\* warnings once and not among its issues.
C2_BadMatcherWarnsOnly ==
    Reported =>
        \A i \in 1..Len(ret.lifecycles) :
            \A j \in 1..Len(ret.lifecycles[i].entries) :
                LET e == ret.lifecycles[i].entries[j]
                IN  FailsGrammar(e.matcher) =>
                        /\ Count(e.issues, IsMatcherSyntaxMsg) = 0
                        /\ Count(e.warnings, IsMatcherSyntaxMsg) = 1

\* A non-empty run of letters.
IsIdentifier(s) == s # <<>> /\ \A i \in 1..Len(s) : s[i] \in Letters

RECURSIVE SplitPipe(_)
\* The pieces of s between its pipes.
SplitPipe(s) ==
    LET pipes == {i \in 1..Len(s) : s[i] = "|"}
    IN  IF pipes = {} THEN <<s>>
        ELSE <<SubSeq(s, 1, Min(pipes) - 1)>>
                 \o SplitPipe(SubSeq(s, Min(pipes) + 1, Len(s)))

\* Two or more identifiers separated by single pipes.
IsPipeList(s) ==
    /\ Len(SplitPipe(s)) >= 2
    /\ \A i \in 1..Len(SplitPipe(s)) : IsIdentifier(SplitPipe(s)[i])

\* An identifier followed by a parenthesized argument.
IsIdentifierWithArgument(s) ==
    \E k \in 1..(Len(s) - 2) :
        /\ IsIdentifier(SubSeq(s, 1, k))
        /\ s[k + 1] = "("
        /\ s[Len(s)] = ")"

InMatcherGrammar(s) ==
    \/ s = <<"*">>
    \/ IsIdentifier(s)
    \/ IsPipeList(s)
    \/ IsIdentifierWithArgument(s)

\* C3: validateMatcher accepts a matcher string if and only if it is "*", a
\* bare identifier, a pipe-delimited list of non-empty identifiers or an
\* identifier followed by a parenthesized argument.
C3_AcceptsExactlyGrammar ==
    (call.fn = "validateMatcher" /\ ret # Pending /\ call.matcher.t = "string")
        => (ret.valid <=> InMatcherGrammar(call.matcher.s))

\* The configuration of the call has a hooks object with lifecycle keys.
HasHooksObject ==
    /\ call.fn = "validateHooksConfig"
    /\ call.config.t = "object"
    /\ "hooks" \in DOMAIN call.config
    /\ call.config.hooks.t = "object"

\* The entry of the configuration that entry j of lifecycle i reports on.
InputEntry(i, j) == call.config.hooks.props[i].value.items[j]

IsTimeoutUnsetMsg(m) == m = TimeoutUnsetMsg

\* The hook action's timeout counts as not set: no field, or null.
TimeoutNotSet(hook) == IsNullish(Get(hook, "timeout"))

\* No remark applies to the entry but missing timeouts: its matcher is
\* accepted, and each of its hook actions is a command whose script exists
\* and has no timeout field.
EntryLacksOnlyTimeouts(entry) ==
    /\ entry.t = "object"
    /\ InMatcherGrammar(entry.matcher.s)
    /\ entry.hooks.t = "array"
    /\ \A k \in 1..Len(entry.hooks.items) :
           /\ entry.hooks.items[k] = Hook(TypeCommand, CmdOk, Undef)
           /\ ScriptFile \in disk

\* A configuration whose only remark is missing timeouts, with one hook
\* action at least.
OnlyMissingTimeouts ==
    /\ HasHooksObject
    /\ \A i \in 1..Len(call.config.hooks.props) :
           LET pair == call.config.hooks.props[i]
           IN  /\ pair.key \in validLifecycles
               /\ pair.value.t = "array"
               /\ \A j \in 1..Len(pair.value.items) :
                      /\ pair.value.items[j].t = "object"
                      /\ pair.value.items[j].matcher.t = "string"
                      /\ EntryLacksOnlyTimeouts(pair.value.items[j])
    /\ \E i \in 1..Len(call.config.hooks.props) :
           \E j \in 1..Len(call.config.hooks.props[i].value.items) :
               call.config.hooks.props[i].value.items[j].hooks.items # <<>>

\* C4 as stated: a configuration whose only remark is missing timeouts gets
\* zero errors and zero warnings and is reported as fully passing.
C4_MissingTimeoutSilent ==
    (Reported /\ OnlyMissingTimeouts) =>
        /\ ret.summary.errors = 0
        /\ ret.summary.warnings = 0
        /\ PrintReportVerdict(ret) = "passed"

\* C4 amended: every hook action whose timeout is not set adds exactly one
\* "timeout not set" warning and no error to its entry, and a configuration
\* whose only remark is missing timeouts has zero errors, one warning per
\* hook action, stays valid and is reported as passed with warnings.
C4_MissingTimeoutWarnsOnce ==
    /\ (Reported /\ HasHooksObject) =>
           \A i \in 1..Len(ret.lifecycles) :
               \A j \in 1..Len(ret.lifecycles[i].entries) :
                   LET e == ret.lifecycles[i].entries[j]
                       hooks == Get(InputEntry(i, j), "hooks")
                   IN  /\ Count(e.issues, IsTimeoutUnsetMsg) = 0
                       /\ hooks.t = "array" =>
                              Count(e.warnings, IsTimeoutUnsetMsg)
                                  = Count(hooks.items, TimeoutNotSet)
    /\ (Reported /\ OnlyMissingTimeouts) =>
           /\ ret.summary.errors = 0
           /\ ret.summary.hooks >= 1
           /\ ret.summary.warnings = ret.summary.hooks
           /\ ret.valid
           /\ PrintReportVerdict(ret) = "passed with warnings"

\* C4's case: a reported configuration whose only remark is missing
\* timeouts, with two hook actions in one entry.
C4_Witness ==
    /\ Reported
    /\ OnlyMissingTimeouts
    /\ ret.summary.warnings = 2
    /\ Len(ret.lifecycles) = 1

\* A finished validateHook call that did not throw.
HookChecked ==
    /\ call.fn = "validateHook"
    /\ ret # Pending
    /\ ~ret.threw

IsTimeoutError(m) ==
    m.msg \in {"timeout must be a positive number", "timeout exceeds the maximum"}

\* The timeout of the call's hook action is present (set, in the code's
\* sense: neither missing nor null).
TimeoutPresent ==
    /\ call.hook.t = "object"
    /\ ~IsNullish(call.hook.timeout)

\* C5: for a hook action whose timeout is present, exactly one timeout error
\* when the value is not a number, below 1 or above 600, and none when it
\* lies in [1, 600]; for 700 the error mentions 700 and 600, for 300 there
\* is none.
C5_TimeoutErrors ==
    (HookChecked /\ TimeoutPresent) =>
        LET to == call.hook.timeout
            inRange == to.t = "number" /\ to.n >= 1 /\ to.n <= 600
        IN  /\ Count(ret.issues, IsTimeoutError) = (IF inRange THEN 0 ELSE 1)
            /\ to = Num(700) =>
                   \E k \in 1..Len(ret.issues) :
                       /\ ret.issues[k].msg = "timeout exceeds the maximum"
                       /\ ret.issues[k].max = 600
                       /\ ret.issues[k].current = Num(700)
            /\ to = Num(300) => Count(ret.issues, IsTimeoutError) = 0

\* C5's case: the timeout 700 has produced its one error.
C5_Witness ==
    /\ HookChecked
    /\ TimeoutPresent
    /\ call.hook.timeout = Num(700)
    /\ Count(ret.issues, IsTimeoutError) = 1

IsTooShortWarning(m) == m.msg = "timeout may be too short"

\* C6: for a timeout t present and within [1, 600] and a lifecycle L, the
\* 'too short' warning is given if and only if L has a recommended value r
\* and 10 * t < r; it is a warning, never an error.
C6_TooShortIffBelowTenth ==
    (HookChecked /\ TimeoutPresent /\ call.hook.timeout.t = "number"
         /\ call.hook.timeout.n >= 1 /\ call.hook.timeout.n <= 600) =>
        LET t == call.hook.timeout.n
            L == call.lifecycle
        IN  /\ (Count(ret.warnings, IsTooShortWarning) = 1)
                   <=> (L \in DOMAIN Recommended /\ 10 * t < Recommended[L])
            /\ Count(ret.warnings, IsTooShortWarning) <= 1
            /\ Count(ret.issues, IsTooShortWarning) = 0
            /\ Count(ret.issues, IsTimeoutError) = 0

\* C6's case: a timeout below a tenth of PostToolUse's recommended value
\* has been warned about.
C6_Witness ==
    /\ HookChecked
    /\ call.lifecycle = "PostToolUse"
    /\ call.hook.timeout = Num(5)
    /\ Count(ret.warnings, IsTooShortWarning) = 1

\* The command of the call's hook action names a script (an interpreter
\* followed by a path) that is not on disk after expansion.
ScriptMissing ==
    /\ call.fn = "validateHook"
    /\ call.hook.t = "object"
    /\ call.hook.command.t = "string"
    /\ MatchScript(call.hook.command.s) # Null
    /\ ~ExistsSync(ResolveScriptPath(MatchScript(call.hook.command.s).s,
                                     platform), disk)

\* The path of the missing script after expansion.
MissingScriptPath ==
    ResolveScriptPath(MatchScript(call.hook.command.s).s, platform)

IsPathIssue(m) ==
    m.msg \in {"script file not found", "cannot parse the script path"}

\* path.isAbsolute
IsAbsolutePath(p, plat) ==
    /\ p # <<>>
    /\ IF plat = "win32"
       THEN p[1] \in {"\\", "/"} \/ (Len(p) >= 2 /\ p[1] = "C:" /\ p[2] = "\\")
       ELSE p[1] = "/"

Placeholders == {"$SET", "$UNSET", "%SET%", "%UNSET%"}

C8_NoHooksKey ==
    (call.fn = "validateHooksConfig" /\ ret # Pending
         /\ call.config.t = "object" /\ "hooks" \notin DOMAIN call.config) =>
        /\ ~ret.threw
        /\ ret.error = NoHooksMsg
        /\ ~ret.valid
        /\ ret.lifecycles = <<>>
        /\ ret.summary = [errors |-> 0, warnings |-> 0, hooks |-> 0]

\* C8's case: a source without the hooks key has been reported.
C8_Witness ==
    /\ Reported
    /\ call.config.t = "object"
    /\ "hooks" \notin DOMAIN call.config
    /\ ret.error # Absent

RemoveAt(seq, i) == SubSeq(seq, 1, i - 1) \o SubSeq(seq, i + 1, Len(seq))

\* The call's configuration without lifecycle i.
ConfigWithout(i) ==
    Config([t |-> "object", props |-> RemoveAt(call.config.hooks.props, i)])

\* Lifecycle i of the call's configuration fails at the lifecycle level.
FailingLifecycle(i) ==
    \/ call.config.hooks.props[i].key \notin validLifecycles
    \/ call.config.hooks.props[i].value.t # "array"

\* C9: a lifecycle whose name is not in the allow-list or whose value is not
\* a list gets exactly one error and none of its entries is inspected, and
\* the other lifecycles get the diagnostics they get without it.
C9_FailingLifecycleIsolated ==
    (HasHooksObject /\ ret # Pending) =>
        \A i \in 1..Len(call.config.hooks.props) :
            FailingLifecycle(i) =>
                LET other == validateHooksConfig(ConfigWithout(i),
                                                 "settings.json", disk, platform)
                IN  /\ ret.threw = other.threw
                    /\ ~ret.threw =>
                           /\ ret.lifecycles[i].key = call.config.hooks.props[i].key
                           /\ ret.lifecycles[i].error # Absent
                           /\ ret.lifecycles[i].entries = <<>>
                           /\ RemoveAt(ret.lifecycles, i) = other.lifecycles
                           /\ ret.summary.errors = other.summary.errors + 1
                           /\ ret.summary.warnings = other.summary.warnings
                           /\ ret.summary.hooks = other.summary.hooks

\* C9's case: a failing lifecycle that holds entries comes before a
\* lifecycle whose entries have been given diagnostics.
C9_Witness ==
    /\ Reported
    /\ HasHooksObject
    /\ Len(ret.lifecycles) = 2
    /\ FailingLifecycle(1)
    /\ call.config.hooks.props[1].value.t = "array"
    /\ call.config.hooks.props[1].value.items # <<>>
    /\ ret.lifecycles[2].entries # <<>>
    /\ ret.lifecycles[2].entries[1].issues # <<>>

\* C10: for every configuration whose hooks value is present, also when an
\* entry or an action is null or not an object, validate returns a report
\* that covers every lifecycle.
C10_ValidateAlwaysReports ==
    (HasHooksObject /\ ret # Pending) =>
        /\ ~ret.threw
        /\ Len(ret.lifecycles) = Len(call.config.hooks.props)

-----------------------------------------------------------------------------
(* validate-agents.js: text.  A document is the sequence of its characters. *)

\* \s of the regular expressions, and the characters trim() strips
IsWhite(ch) == ch \in {" ", "\t", "\n", "\r"}

\* s.startsWith(prefix)
StartsWith(s, prefix) ==
    Len(s) >= Len(prefix) /\ SubSeq(s, 1, Len(prefix)) = prefix

\* s.endsWith(suffix)
EndsWith(s, suffix) ==
    Len(s) >= Len(suffix) /\ SubSeq(s, Len(s) - Len(suffix) + 1, Len(s)) = suffix

\* The position (from 1) at or after from where sub first occurs in s, 0 when
\* it does not.
FindFrom(s, sub, from) ==
    LET hits == {i \in from..(Len(s) - Len(sub) + 1) :
                     SubSeq(s, i, i + Len(sub) - 1) = sub}
    IN  IF hits = {} THEN 0 ELSE Min(hits)

\* s.trim()
Trim(s) ==
    LET solid == {i \in 1..Len(s) : ~IsWhite(s[i])}
    IN  IF solid = {} THEN <<>>
        ELSE SubSeq(s, Min(solid), CHOOSE i \in solid : \A j \in solid : j <= i)

RECURSIVE Split(_, _)
\* s.split(ch) for a one-character separator
Split(s, ch) ==
    LET at == FindFrom(s, <<ch>>, 1)
    IN  IF at = 0 THEN <<s>>
        ELSE <<SubSeq(s, 1, at - 1)>> \o Split(SubSeq(s, at + 1, Len(s)), ch)

\* s.replace(/['"]/g, "")
StripQuotes(s) == SelectSeq(s, LAMBDA ch : ~IsQuote(ch))

\* fileName.replace(".md", ""): String.prototype.replace with a string
\* pattern replaces the first occurrence only.
ReplaceFirst(s, sub) ==
    LET at == FindFrom(s, sub, 1)
    IN  IF at = 0 THEN s
        ELSE SubSeq(s, 1, at - 1) \o SubSeq(s, at + Len(sub), Len(s))

Dashes == <<"-", "-", "-">>
NL == "\n"
DotMd == <<".", "m", "d">>

-----------------------------------------------------------------------------
(* parseFrontmatter *)

\* /^---\n([\s\S]*?)\n---/: the position of the "\n" that starts the first
\* "\n---" at or after the end of the opening "---\n"; 0 when the pattern does
\* not match.
HeaderClose(content) ==
    IF StartsWith(content, Dashes \o <<NL>>)
    THEN FindFrom(content, <<NL>> \o Dashes, 5)
    ELSE 0

\* match[1]
HeaderBlock(content) == SubSeq(content, 5, HeaderClose(content) - 1)

\* The position of the first character of the line that is not white space,
\* 0 when there is none.
FirstSolid(line) ==
    LET solid == {i \in 1..Len(line) : ~IsWhite(line[i])}
    IN  IF solid = {} THEN 0 ELSE Min(solid)

\* /^\s+-\s+/.test(line)
IsArrayItem(line) ==
    LET dash == FirstSolid(line)
    IN  /\ dash > 1
        /\ line[dash] = "-"
        /\ dash < Len(line)
        /\ IsWhite(line[dash + 1])

\* line.replace(/^\s+-\s+/, "").trim()
MutArrayItem(line) == SubSeq(line, FirstSolid(line) + 1, Len(line))

ArrayItem(line) == Trim(SubSeq(line, FirstSolid(line) + 1, Len(line)))

\* /^\s+/.test(line), /^\s/.test(line.charAt(0))
IsIndented(line) == Len(line) > 0 /\ IsWhite(line[1])

\* data[key] = value
Put(data, key, value) ==
    [k \in DOMAIN data \cup {key} |-> IF k = key THEN value ELSE data[k]]

\* data[field] of the parsed header
Field(data, field) == IF field \in DOMAIN data THEN data[field] ELSE Undef

\* The value of a top-level key line and the mode it opens.
MutClassifyValue(value) ==
    IF StartsWith(value, <<"[">>) /\ EndsWith(value, <<"]">>)
    THEN LET parts == Split(SubSeq(value, 2, Len(value) - 1), ",")
         IN  [value |-> Arr([i \in 1..Len(parts) |->
                                 Str(StripQuotes(Trim(parts[i])))]),
              mode |-> "none"]
    ELSE IF value = <<"|">> \/ value = <<">">>
    THEN [value |-> Str(<<>>), mode |-> "string"]
    ELSE IF value = <<>>
    THEN [value |-> Arr(<<>>), mode |-> "array"]
    ELSE [value |-> Str(value), mode |-> "none"]

ClassifyValue(value) ==
    IF StartsWith(value, <<"[">>) /\ EndsWith(value, <<"]">>)
    THEN LET parts == Split(SubSeq(value, 2, Len(value) - 1), ",")
         IN  [value |-> Arr([i \in 1..Len(parts) |->
                                 Str(StripQuotes(Trim(parts[i])))]),
              mode |-> "none"]
    ELSE IF value = <<"|">> \/ value = <<">">>
    THEN [value |-> Str(<<>>), mode |-> "string"]
    ELSE IF value = <<>>
    THEN [value |-> Arr(<<>>), mode |-> "array"]
    ELSE IF \/ StartsWith(value, <<"\"">>) /\ EndsWith(value, <<"\"">>)
            \/ StartsWith(value, <<"'">>) /\ EndsWith(value, <<"'">>)
    THEN [value |-> Str(SubSeq(value, 2, Len(value) - 1)), mode |-> "none"]
    ELSE [value |-> Str(value), mode |-> "none"]

\* A line that continues nothing: multilineMode = null, then the key line.
ParseKeyLine(st, line) ==
    LET colonIndex == FindFrom(line, <<":">>, 1)
        key == Trim(SubSeq(line, 1, colonIndex - 1))
        value == Trim(SubSeq(line, colonIndex + 1, Len(line)))
    IN  IF colonIndex = 0 \/ key = <<>> \/ IsIndented(line)
        THEN [st EXCEPT !.multilineMode = "none"]
        ELSE [data |-> Put(st.data, key, ClassifyValue(value).value),
              currentKey |-> key,
              multilineMode |-> ClassifyValue(value).mode]

\* One turn of the loop over the header's lines.
ParseLine(st, line) ==
    IF st.multilineMode = "array" /\ IsArrayItem(line)
    THEN LET old == st.data[st.currentKey]
             items == IF old.t = "array" THEN old.items ELSE <<>>
         IN  [st EXCEPT !.data = Put(st.data, st.currentKey,
                                    Arr(Append(items, Str(ArrayItem(line)))))]
    ELSE IF st.multilineMode = "string" /\ IsIndented(line) /\ ~IsArrayItem(line)
    THEN [st EXCEPT !.data = Put(st.data, st.currentKey,
                                 Str(st.data[st.currentKey].s \o <<" ">>
                                         \o Trim(line)))]
    ELSE ParseKeyLine(st, line)

RECURSIVE ParseLines(_, _)
ParseLines(lines, st) ==
    IF lines = <<>> THEN st
    ELSE ParseLines(Tail(lines), Strict2(ParseLine, st, Head(lines)))

\* null when the header pattern does not match, else the data object.
parseFrontmatter(content) ==
    IF HeaderClose(content) = 0 THEN Null
    ELSE [t |-> "object",
          data |-> ParseLines(Split(HeaderBlock(content), NL),
                              [data |-> [k \in {} |-> Undef],
                               currentKey |-> <<>>,
                               multilineMode |-> "none"]).data]

-----------------------------------------------------------------------------
(* validateAgent *)

FieldName == <<"n", "a", "m", "e">>
FieldDescription ==
    <<"d", "e", "s", "c", "r", "i", "p", "t", "i", "o", "n">>
FieldTools == <<"t", "o", "o", "l", "s">>
FieldModel == <<"m", "o", "d", "e", "l">>

REQUIRED_FIELDS == <<FieldName, FieldDescription, FieldTools>>

VALID_MODELS ==
    {<<"o", "p", "u", "s">>, <<"s", "o", "n", "n", "e", "t">>,
     <<"h", "a", "i", "k", "u">>}

\* data.description.length < 20
MinDescriptionLength == 20

\* bodyMatch[1].trim().length < 100
MinBodyLength == 100

\* A file of the agents directory: its text, or a file readFileSync cannot read.
Text(content) == [t |-> "text", content |-> content]
Unreadable == [t |-> "EACCES"]

UnreadableMsg == [msg |-> "cannot read the file"]
NoFrontmatterMsg == [msg |-> "missing YAML frontmatter"]
BadFrontmatterMsg == [msg |-> "malformed YAML frontmatter"]
MissingFieldMsg(field) == [msg |-> "missing required field", field |-> field]
NameMismatchMsg(name, expectedName) ==
    [msg |-> "name differs from the file name", name |-> name,
     expected |-> expectedName]
InvalidModelMsg(model) == [msg |-> "invalid model value", model |-> model]
ShortDescriptionMsg == [msg |-> "description too short"]
ShortBodyMsg == [msg |-> "too little content"]

\* value.length of a string or an array
LengthOf(v) == IF v.t = "array" THEN Len(v.items) ELSE Len(v.s)

\* if (!data[field]) errors.push(...)
FieldMissing(data, field) == ~Truthy(Field(data, field))

\* for (const field of REQUIRED_FIELDS) ...
RequiredFieldErrors(data) ==
    LET missing == SelectSeq(REQUIRED_FIELDS, LAMBDA f : FieldMissing(data, f))
    IN  [i \in 1..Len(missing) |-> MissingFieldMsg(missing[i])]

\* const expectedName = fileName.replace(".md", "")
ExpectedName(fileName) == ReplaceFirst(fileName, DotMd)

\* data.name !== expectedName: an array is never identical to a string.
NameDiffers(name, expectedName) ==
    name.t # "string" \/ name.s # expectedName

\* if (data.name) { ... }
NameWarnings(data, fileName) ==
    LET name == Field(data, FieldName)
    IN  IF Truthy(name) /\ NameDiffers(name, ExpectedName(fileName))
        THEN <<NameMismatchMsg(name, ExpectedName(fileName))>>
        ELSE <<>>

\* if (data.model && !VALID_MODELS.includes(data.model))
ModelErrors(data) ==
    LET model == Field(data, FieldModel)
    IN  IF Truthy(model) /\ ~(model.t = "string" /\ model.s \in VALID_MODELS)
        THEN <<InvalidModelMsg(model)>>
        ELSE <<>>

\* if (data.description && data.description.length < 20)
DescriptionWarnings(data) ==
    LET description == Field(data, FieldDescription)
    IN  IF Truthy(description) /\ LengthOf(description) < MinDescriptionLength
        THEN <<ShortDescriptionMsg>>
        ELSE <<>>

\* /^---\n[\s\S]*?\n---\n([\s\S]*)/: the position of the "\n" that starts
\* the first "\n---\n", 0 when the pattern does not match.
BodyClose(content) ==
    IF StartsWith(content, Dashes \o <<NL>>)
    THEN FindFrom(content, <<NL>> \o Dashes \o <<NL>>, 5)
    ELSE 0

\* if (!bodyMatch || bodyMatch[1].trim().length < 100)
MutBodyWarnings(content) == <<>>

BodyWarnings(content) ==
    IF \/ BodyClose(content) = 0
       \/ Len(Trim(SubSeq(content, BodyClose(content) + 5, Len(content))))
              < MinBodyLength
    THEN <<ShortBodyMsg>>
    ELSE <<>>

\* The rules applied to a header that parsed, and the error for one that
\* did not.
ValidateParsed(parsed, fileName, content) ==
    IF parsed.t = "null"
    THEN [errors |-> <<BadFrontmatterMsg>>, warnings |-> <<>>]
    ELSE [errors |-> RequiredFieldErrors(parsed.data) \o ModelErrors(parsed.data),
          warnings |-> NameWarnings(parsed.data, fileName)
                           \o DescriptionWarnings(parsed.data)
                           \o BodyWarnings(content)]

validateAgent(fileName, file) ==
    IF file.t # "text"
    THEN [errors |-> <<UnreadableMsg>>, warnings |-> <<>>]
    ELSE IF ~StartsWith(file.content, Dashes)
    THEN [errors |-> <<NoFrontmatterMsg>>, warnings |-> <<>>]
    ELSE Strict1(LAMBDA parsed : ValidateParsed(parsed, fileName, file.content),
                 parseFrontmatter(file.content))

-----------------------------------------------------------------------------
(* The descriptor documents drawn: header lines, bodies, file names. *)

\* n times the character ch
Rep(ch, n) == [i \in 1..n |-> ch]

LineNameFoo ==
    <<"n", "a", "m", "e", ":", " ", "f", "o", "o">>

LineNameBar ==
    <<"n", "a", "m", "e", ":", " ", "b", "a", "r">>

LineNameEmpty ==
    <<"n", "a", "m", "e", ":">>

LineNameQuotedEmpty ==
    <<"n", "a", "m", "e", ":", " ", "\"", "\"">>

LineNameMdx ==
    <<"n", "a", "m", "e", ":", " ", "a", ".", "m", "d", "x">>

LineNameList ==
    <<"n", "a", "m", "e", ":", " ", "[", "f", "o", "o", "]">>

LineDescriptionShort ==
    <<"d", "e", "s", "c", "r", "i", "p", "t", "i", "o", "n", ":", " ", "s",
      "h", "o", "r", "t">>

LineDescriptionEmpty ==
    <<"d", "e", "s", "c", "r", "i", "p", "t", "i", "o", "n", ":">>

LineDescriptionBlock ==
    <<"d", "e", "s", "c", "r", "i", "p", "t", "i", "o", "n", ":", " ", "|",
      "\n", " ", " ", "r", "e", "v", "i", "e", "w", "s", " ", "t", "h",
      "e", " ", "c", "o", "d", "e", "\n", " ", " ", "f", "o", "r", " ",
      "s", "e", "c", "u", "r", "i", "t", "y">>

LineToolsInline ==
    <<"t", "o", "o", "l", "s", ":", " ", "[", "R", "e", "a", "d", ",", " ",
      "W", "r", "i", "t", "e", "]">>

LineToolsBlock ==
    <<"t", "o", "o", "l", "s", ":", "\n", " ", " ", "-", " ", "R", "e",
      "a", "d", "\n", " ", " ", "-", " ", "W", "r", "i", "t", "e">>

LineToolsEmpty ==
    <<"t", "o", "o", "l", "s", ":">>

LineToolsEmptyList ==
    <<"t", "o", "o", "l", "s", ":", " ", "[", "]">>

LineModelOpus ==
    <<"m", "o", "d", "e", "l", ":", " ", "o", "p", "u", "s">>

LineModelGpt ==
    <<"m", "o", "d", "e", "l", ":", " ", "\"", "g", "p", "t", "\"">>

DescriptionKey ==
    <<"d", "e", "s", "c", "r", "i", "p", "t", "i", "o", "n", ":", " ">>

FooMd ==
    <<"f", "o", "o", ".", "m", "d">>

BazMd ==
    <<"b", "a", "z", ".", "m", "d">>

MdxMd ==
    <<"a", ".", "m", "d", "x", ".", "m", "d">>
\* A description line whose value has n characters.
LineDescription(n) == DescriptionKey \o Rep("d", n)

\* No line for the field.
NoLine == <<"#">>

NameLines ==
    {NoLine, LineNameFoo, LineNameBar, LineNameEmpty, LineNameQuotedEmpty,
     LineNameMdx, LineNameList}

DescriptionLines ==
    {NoLine, LineDescriptionShort, LineDescriptionEmpty, LineDescriptionBlock,
     LineDescription(MinDescriptionLength - 1),
     LineDescription(MinDescriptionLength),
     LineDescription(MinDescriptionLength + 10)}

ToolsLines ==
    {NoLine, LineToolsInline, LineToolsBlock, LineToolsEmpty, LineToolsEmptyList}

ModelLines == {NoLine, LineModelOpus, LineModelGpt}

RECURSIVE JoinLines(_)
\* lines.join("\n")
JoinLines(lines) ==
    IF lines = <<>> THEN <<>>
    ELSE IF Len(lines) = 1 THEN lines[1]
    ELSE lines[1] \o <<NL>> \o JoinLines(Tail(lines))

\* The header block of the chosen lines.
Header(lines) == JoinLines(SelectSeq(lines, LAMBDA l : l # NoLine))

\* The document: opening delimiter, header, closing delimiter, body.
Document(open, header, close, body) ==
    open \o <<NL>> \o header \o <<NL>> \o close \o <<NL>> \o body

Bodies ==
    {<<>>} \cup {Rep("x", n) : n \in {MinBodyLength - 1, MinBodyLength}}
           \cup {<<NL, " ">> \o Rep("x", MinBodyLength - 1) \o <<" ", NL>>}

Headers ==
    {Header(<<n, d, t, m>>) :
         n \in NameLines, d \in DescriptionLines, t \in ToolsLines,
         m \in ModelLines}

ScenarioAHeader ==
    Header(<<LineNameFoo, LineDescription(MinDescriptionLength + 10),
             LineToolsInline>>)

\* Well-delimited documents.
Documents == {Document(Dashes, h, Dashes, b) : h \in Headers, b \in Bodies}

\* Documents whose delimiters are not both lines of three dashes, or are
\* missing.
OddDocuments ==
    {<<>>, Dashes, Dashes \o <<NL>> \o Dashes \o <<NL>>,
     ScenarioAHeader \o <<NL>> \o Rep("x", MinBodyLength),
     Dashes \o <<NL>> \o ScenarioAHeader \o <<NL>> \o Rep("x", MinBodyLength),
     Dashes \o <<NL>> \o ScenarioAHeader \o <<NL>> \o Dashes,
     <<NL>> \o Document(Dashes, ScenarioAHeader, Dashes, Rep("x", MinBodyLength))}
        \cup {Document(o, ScenarioAHeader, c, Rep("x", MinBodyLength)) :
                  o \in {Dashes, Dashes \o <<"-">>, Dashes \o <<" ">>},
                  c \in {Dashes \o <<"-">>, Dashes \o <<"x">>, <<" ">> \o Dashes,
                         <<"-", "-">>}}

FileNames == {FooMd, BazMd, MdxMd}

AgentFileUniverse ==
    {Unreadable} \cup {Text(c) : c \in Documents \cup OddDocuments}

-----------------------------------------------------------------------------
(* Calls of validateAgent *)

InitAgent ==
    /\ MainIdle
    /\ disk = {}
    /\ platform = "linux"
    /\ call \in {[fn |-> "validateAgent", fileName |-> f, file |-> d] :
                     f \in FileNames, d \in AgentFileUniverse}
    /\ ret = Pending

RunValidateAgent ==
    /\ call.fn = "validateAgent"
    /\ ret = Pending
    /\ ret' = validateAgent(call.fileName, call.file)
    /\ UNCHANGED <<argv, files, disk, platform, pc, allResults, exit, call,
                   agentsLocals>>

SpecAgent == InitAgent /\ [][RunValidateAgent]_vars

-----------------------------------------------------------------------------
(* Properties of validateAgent *)

\* validateAgent has returned for a document whose header parsed.
AgentParsed ==
    /\ call.fn = "validateAgent"
    /\ ret # Pending
    /\ call.file.t = "text"
    /\ StartsWith(call.file.content, Dashes)
    /\ parseFrontmatter(call.file.content).t = "object"

\* The descriptor of the document validated.
Descriptor == parseFrontmatter(call.file.content).data

\* The field is absent from the descriptor, or written with an empty value:
\* an empty string or a list without items.
AbsentOrEmpty(field) ==
    LET v == Field(Descriptor, field)
    IN  \/ v.t = "undefined"
        \/ v.t = "string" /\ v.s = <<>>
        \/ v.t = "array" /\ v.items = <<>>

IsMissingFieldMsg(m) == m.msg = "missing required field"

\* C11: for a descriptor whose header parses, every required field (name,
\* description, tools) that is absent or empty gets exactly one
\* missing-required-field error naming it, a field that is neither gets none,
\* and no missing-required-field error names anything else.
C11_OneErrorPerMissingField ==
    AgentParsed =>
        /\ \A i \in 1..Len(REQUIRED_FIELDS) :
               Count(ret.errors,
                     LAMBDA m : m = MissingFieldMsg(REQUIRED_FIELDS[i]))
                   = IF AbsentOrEmpty(REQUIRED_FIELDS[i]) THEN 1 ELSE 0
        /\ \A k \in 1..Len(ret.errors) :
               IsMissingFieldMsg(ret.errors[k]) =>
                   \E i \in 1..Len(REQUIRED_FIELDS) :
                       ret.errors[k].field = REQUIRED_FIELDS[i]

\* The file name with its trailing .md extension removed.
FileBaseName(fileName) ==
    IF EndsWith(fileName, DotMd)
    THEN SubSeq(fileName, 1, Len(fileName) - Len(DotMd))
    ELSE fileName

IsNameWarning(m) == m.msg = "name differs from the file name"

\* C12: for a descriptor whose name is present, the name causes no error,
\* exactly one warning when it differs from the file name without its
\* trailing .md, and no warning when it equals it.
C12_NameWarningIffDiffers ==
    (AgentParsed /\ ~AbsentOrEmpty(FieldName)) =>
        /\ Count(ret.errors, LAMBDA m : m = MissingFieldMsg(FieldName)) = 0
        /\ Count(ret.warnings, IsNameWarning)
               = IF Field(Descriptor, FieldName)
                        = Str(FileBaseName(call.fileName))
                 THEN 0 ELSE 1

\* The document of scenario A (name: foo, a description of 30 characters,
\* tools: [Read, Write]) stored as foo.md, with the body b.
ScenarioA(b) ==
    /\ call.fn = "validateAgent"
    /\ ret # Pending
    /\ call.fileName = FooMd
    /\ call.file = Text(Document(Dashes, ScenarioAHeader, Dashes, b))

\* C13 as stated: the document of scenario A validates with zero errors and
\* zero warnings, whatever follows its header.
C13_ScenarioAClean ==
    \A b \in Bodies :
        ScenarioA(b) => ret.errors = <<>> /\ ret.warnings = <<>>

\* C13: the document of scenario A validates with zero errors; it gets zero
\* warnings when its body, trimmed, has at least 100 characters, and exactly
\* the too-little-content warning otherwise.
C13_ScenarioACleanGivenBody ==
    \A b \in Bodies :
        ScenarioA(b) =>
            /\ ret.errors = <<>>
            /\ ret.warnings =
                   IF Len(Trim(b)) >= MinBodyLength THEN <<>>
                   ELSE <<ShortBodyMsg>>

C13_Witness ==
    /\ ScenarioA(Rep("x", MinBodyLength))
    /\ ret = [errors |-> <<>>, warnings |-> <<>>]

\* The lines of the document.
LinesOf(content) == Split(content, NL)

\* The document's first line is the opening delimiter.
HasOpeningDelimiter(content) == LinesOf(content)[1] = Dashes

\* A later line of the document is the closing delimiter.
HasClosingDelimiter(content) ==
    \E i \in 2..Len(LinesOf(content)) : LinesOf(content)[i] = Dashes

\* C14: a document without the opening delimiter as its first line, or
\* without a closing delimiter line after it, gets exactly one error and no
\* warning.
C14_NoHeaderOneError ==
    (/\ call.fn = "validateAgent"
     /\ ret # Pending
     /\ call.file.t = "text"
     /\ \/ ~HasOpeningDelimiter(call.file.content)
        \/ ~HasClosingDelimiter(call.file.content)) =>
        Len(ret.errors) = 1 /\ ret.warnings = <<>>

-----------------------------------------------------------------------------
(* validatePluginAgents (the validate-agents.js held in                    *)
(* src/scripts/shell/init.sh, which adds the plugin.json check).           *)
(*                                                                         *)
(* The file system: files.agentsDir is the agents directory (Missing, or    *)
(* the sequence of its [name, file] entries in readdir order),             *)
(* files.plugin is .claude-plugin/plugin.json, disk holds the other paths  *)
(* that exist under the plugin root, each the sequence of its segments.    *)

Slash == "/"
AgentsSegment == <<"a", "g", "e", "n", "t", "s">>
Dot == <<".">>
DotDot == <<".", ".">>

RECURSIVE ResolveSegments(_, _)
\* path.normalize of the segments: ".." removes the segment before it.
ResolveSegments(segments, stack) ==
    IF segments = <<>> THEN stack
    ELSE IF /\ Head(segments) = DotDot
            /\ stack # <<>>
            /\ stack[Len(stack)] # DotDot
    THEN ResolveSegments(Tail(segments), SubSeq(stack, 1, Len(stack) - 1))
    ELSE ResolveSegments(Tail(segments), Append(stack, Head(segments)))

\* path.join(pluginRoot, entry): the segments below the plugin root, and
\* whether the path keeps a trailing separator.
JoinRoot(entry) ==
    [segments |->
         ResolveSegments(SelectSeq(Split(entry, Slash),
                                   LAMBDA s : s # <<>> /\ s # Dot), <<>>),
     trailing |-> EndsWith(entry, <<Slash>>)]

\* The names in the agents directory.
DirNames(fs) ==
    IF fs.agentsDir.t = "dir"
    THEN {fs.agentsDir.entries[i].name : i \in 1..Len(fs.agentsDir.entries)}
    ELSE {}

\* fs.existsSync(resolved)
ExistsUnderRoot(resolved, fs, dsk) ==
    IF resolved.segments = <<>> THEN TRUE
    ELSE IF resolved.segments = <<AgentsSegment>> THEN fs.agentsDir.t = "dir"
    ELSE IF Len(resolved.segments) = 2 /\ resolved.segments[1] = AgentsSegment
    THEN resolved.segments[2] \in DirNames(fs) /\ ~resolved.trailing
    ELSE resolved.segments \in dsk /\ ~resolved.trailing

PluginParseMsg == [msg |-> "plugin.json cannot be parsed"]
AgentsNotArrayMsg == [msg |-> "plugin.json agents must be an array"]
EntryNotStringMsg(type) == [msg |-> "agents element must be a string", type |-> type]
EntryIsDirectoryMsg(entry) ==
    [msg |-> "agents does not support directory paths", entry |-> entry]
EntryNotMdMsg(entry) == [msg |-> "agents path must end with .md", entry |-> entry]
CountMismatchMsg(pluginCount, actualCount) ==
    [msg |-> "plugin.json declares a different number of agents",
     declared |-> pluginCount, actual |-> actualCount]
EntryMissingMsg(entry) ==
    [msg |-> "file referenced by plugin.json does not exist", path |-> entry]

\* typeof entry
TypeOf(v) == IF v.t \in {"null", "array"} THEN "object" ELSE v.t

\* The first loop's turn for one entry: type, directory path, .md suffix.
MutFormatErrors(entry) ==
    IF TypeOf(entry) # "string"
    THEN <<EntryNotStringMsg(TypeOf(entry))>>
    ELSE IF EndsWith(entry.s, <<Slash>>)
    THEN <<EntryIsDirectoryMsg(entry.s)>>
    ELSE IF ~EndsWith(entry.s, DotMd) THEN <<EntryNotMdMsg(entry.s)>> ELSE <<>>

FormatErrors(entry) ==
    IF TypeOf(entry) # "string"
    THEN <<EntryNotStringMsg(TypeOf(entry))>>
    ELSE (IF EndsWith(entry.s, <<Slash>>)
          THEN <<EntryIsDirectoryMsg(entry.s)>> ELSE <<>>)
             \o (IF ~EndsWith(entry.s, DotMd)
                 THEN <<EntryNotMdMsg(entry.s)>> ELSE <<>>)

\* for (const entry of agents) { ... }
MutFormatLoop(agents) ==
    IF agents = <<>> THEN <<>> ELSE FormatErrors(Head(agents))

RECURSIVE FormatLoop(_)
FormatLoop(agents) ==
    IF agents = <<>> THEN <<>>
    ELSE Strict1(FormatErrors, Head(agents)) \o FormatLoop(Tail(agents))

\* if (pluginCount !== actualCount) errors.push(...)
MutCountErrors(agents, agentFiles) ==
    IF Len(agents) > Len(agentFiles)
    THEN <<CountMismatchMsg(Len(agents), Len(agentFiles))>>
    ELSE <<>>

CountErrors(agents, agentFiles) ==
    IF Len(agents) # Len(agentFiles)
    THEN <<CountMismatchMsg(Len(agents), Len(agentFiles))>>
    ELSE <<>>

\* The second loop's turn for one entry: the file must exist.
MutExistenceErrors(entry, fs, dsk) == <<>>

ExistenceErrors(entry, fs, dsk) ==
    IF TypeOf(entry) # "string" THEN <<>>
    ELSE IF ~ExistsUnderRoot(JoinRoot(entry.s), fs, dsk)
    THEN <<EntryMissingMsg(entry.s)>>
    ELSE <<>>

RECURSIVE ExistenceLoop(_, _, _)
ExistenceLoop(agents, fs, dsk) ==
    IF agents = <<>> THEN <<>>
    ELSE Strict1(LAMBDA entry : ExistenceErrors(entry, fs, dsk), Head(agents))
             \o ExistenceLoop(Tail(agents), fs, dsk)

\* The result for a plugin.json that parsed: reading plugin.agents of null
\* throws, a value that is not an array is one error.
CheckPlugin(plugin, agentFiles, fs, dsk) ==
    IF IsNullish(plugin) THEN Threw
    ELSE IF Get(plugin, "agents").t # "array"
    THEN [threw |-> FALSE, errors |-> <<AgentsNotArrayMsg>>, warnings |-> <<>>]
    ELSE [threw |-> FALSE,
          errors |-> FormatLoop(Get(plugin, "agents").items)
                         \o CountErrors(Get(plugin, "agents").items, agentFiles)
                         \o ExistenceLoop(Get(plugin, "agents").items, fs, dsk),
          warnings |-> <<>>]

validatePluginAgents(agentFiles, fs, dsk) ==
    IF fs.plugin.t = "ENOENT"
    THEN [threw |-> FALSE, errors |-> <<>>, warnings |-> <<>>]
    ELSE IF fs.plugin.t # "json"
    THEN [threw |-> FALSE, errors |-> <<PluginParseMsg>>, warnings |-> <<>>]
    ELSE CheckPlugin(fs.plugin.data, agentFiles, fs, dsk)

-----------------------------------------------------------------------------
(* The directories and manifests drawn *)

\* The most descriptor files in the directory, and the most entries a
\* manifest holds beside those that name the descriptor files in order.
MaxFiles == 4
MaxExtra == 2

EntryDotSlash ==
    <<".", "/", "a", "g", "e", "n", "t", "s", "/", "a", "a", ".", "m", "d">>

EntryDirectory ==
    <<"a", "g", "e", "n", "t", "s", "/">>

EntryGone ==
    <<"a", "g", "e", "n", "t", "s", "/", "g", "o", "n", "e", ".", "m", "d">>

EntryNoSuffix ==
    <<"a", "g", "e", "n", "t", "s", "/", "a">>

EntryReadme ==
    <<"R", "E", "A", "D", "M", "E", ".", "m", "d">>

EntryMissingDirectory ==
    <<"d", "o", "c", "s", "/">>

EntryParent ==
    <<"a", "g", "e", "n", "t", "s", "/", ".", ".", "/", "a", "g", "e", "n",
      "t", "s", "/", "a", ".", "m", "d">>

Readme ==
    <<"R", "E", "A", "D", "M", "E", ".", "m", "d">>

Notes ==
    <<"n", "o", "t", "e", "s", ".", "t", "x", "t">>
\* The name of the k-th descriptor file: a.md, aa.md, aaa.md, ...
AgentName(k) == Rep("a", k) \o DotMd

\* The manifest entry of the k-th descriptor file: agents/a.md, ...
EntryFor(k) == Str(AgentsSegment \o <<Slash>> \o AgentName(k))

GoodDocument ==
    Document(Dashes, ScenarioAHeader, Dashes, Rep("x", MinBodyLength))

\* The agents directory with the given [name, file] entries.
Dir(entries) == [t |-> "dir", entries |-> entries]

\* k descriptor files, in readdir order.
DescriptorFiles(k) ==
    [i \in 1..k |-> [name |-> AgentName(i), file |-> Text(GoodDocument)]]

\* A file of the directory that is not a descriptor.
NotesFile == [name |-> Notes, file |-> Text(<<>>)]

\* fs.readdirSync(AGENTS_DIR).filter((f) => f.endsWith(".md"))
MdFiles(fs) ==
    LET md == SelectSeq(fs.agentsDir.entries, LAMBDA e : EndsWith(e.name, DotMd))
    IN  [i \in 1..Len(md) |-> md[i].name]

\* The file of the agents directory with the given name.
FileNamed(fs, name) ==
    LET at == CHOOSE i \in 1..Len(fs.agentsDir.entries) :
                  fs.agentsDir.entries[i].name = name
    IN  fs.agentsDir.entries[at].file

EntryUniverse ==
    {EntryFor(1), Num(5), Null}
        \cup {Str(e) : e \in {EntryDotSlash, EntryDirectory, EntryGone,
                              EntryNoSuffix, EntryReadme,
                              EntryMissingDirectory, EntryParent}}

\* The manifests: the entries of the first k descriptor files, then up to
\* MaxExtra entries of any kind.
Manifests ==
    {[i \in 1..k |-> EntryFor(i)] \o extra :
         k \in 0..MaxFiles, extra \in SeqsUpTo(EntryUniverse, MaxExtra)}

Plugin(agents) == [t |-> "object", agents |-> agents]

PluginUniverse ==
    {Missing, Garbage, Json(Null), Json(Num(5)), Json([t |-> "object"]),
     Json(Plugin(Str(EntryDirectory)))}
        \cup {Json(Plugin(Arr(m))) : m \in Manifests}

DirectoryUniverse ==
    {Dir(DescriptorFiles(k)) : k \in 0..MaxFiles}
        \cup {Dir(Append(DescriptorFiles(k), NotesFile)) : k \in {0, 2}}

-----------------------------------------------------------------------------
(* Calls of validatePluginAgents *)

InitPlugin ==
    /\ AgentsIdle
    /\ argv = <<>>
    /\ pc = "idle"
    /\ allResults = <<>>
    /\ exit = [exited |-> FALSE]
    /\ platform = "linux"
    /\ disk = {<<Readme>>}
    /\ files \in [agentsDir : DirectoryUniverse, plugin : PluginUniverse]
    /\ call = [fn |-> "validatePluginAgents", agentFiles |-> MdFiles(files)]
    /\ ret = Pending

RunValidatePluginAgents ==
    /\ call.fn = "validatePluginAgents"
    /\ ret = Pending
    /\ ret' = validatePluginAgents(call.agentFiles, files, disk)
    /\ UNCHANGED <<argv, files, disk, platform, pc, allResults, exit, call,
                   agentsLocals>>

SpecPlugin == InitPlugin /\ [][RunValidatePluginAgents]_vars

-----------------------------------------------------------------------------
(* Properties of validatePluginAgents *)

\* validatePluginAgents has returned for a plugin.json that parsed and whose
\* agents field is a list: the manifest is in use.
ManifestChecked ==
    /\ call.fn = "validatePluginAgents"
    /\ ret # Pending
    /\ files.plugin.t = "json"
    /\ ~IsNullish(files.plugin.data)
    /\ Get(files.plugin.data, "agents").t = "array"

\* The manifest's entries.
ManifestEntries == files.plugin.data.agents.items

\* The inventory: the names of the descriptor files in the agents directory.
Inventory == {n \in DirNames(files) : EndsWith(n, DotMd)}

IsCountMismatchMsg(m) == m.msg = "plugin.json declares a different number of agents"

\* C15: with a manifest in use, the check emits exactly one count-mismatch
\* error, stating the declared and the actual count, when the number of
\* manifest entries differs from the number of descriptor files (whichever is
\* larger), and none when the two are equal.
C15_OneCountMismatch ==
    ManifestChecked =>
        /\ Count(ret.errors, IsCountMismatchMsg)
               = IF Len(ManifestEntries) # Cardinality(Inventory) THEN 1 ELSE 0
        /\ \A k \in 1..Len(ret.errors) :
               IsCountMismatchMsg(ret.errors[k]) =>
                   /\ ret.errors[k].declared = Len(ManifestEntries)
                   /\ ret.errors[k].actual = Cardinality(Inventory)

\* Scenario C: three entries declared, four descriptor files in the directory.
C15_Witness ==
    /\ ManifestChecked
    /\ Len(ManifestEntries) = MaxFiles - 1
    /\ Cardinality(Inventory) = MaxFiles
    /\ Count(ret.errors,
             LAMBDA m : m = CountMismatchMsg(MaxFiles - 1, MaxFiles)) = 1

\* The entry references the descriptor file name of the agents directory.
References(entry, name) ==
    /\ entry.t = "string"
    /\ JoinRoot(entry.s) = [segments |-> <<AgentsSegment, name>>,
                            trailing |-> FALSE]

\* C16 as stated: when the check of a manifest in use returns no error, every
\* descriptor file of the inventory is referenced by some entry and every
\* entry references a descriptor file of the inventory.
C16_NoErrorMeansSameSet ==
    (ManifestChecked /\ ret.errors = <<>>) =>
        /\ \A n \in Inventory :
               \E i \in 1..Len(ManifestEntries) : References(ManifestEntries[i], n)
        /\ \A i \in 1..Len(ManifestEntries) :
               \E n \in Inventory : References(ManifestEntries[i], n)

\* The path the entry resolves to exists under the plugin root.
EntryOnDisk(entry) ==
    LET segments == JoinRoot(entry.s).segments
    IN  \/ segments = <<>>
        \/ segments = <<AgentsSegment>>
        \/ /\ ~EndsWith(entry.s, <<Slash>>)
           /\ \/ segments \in disk
              \/ \E n \in DirNames(files) : segments = <<AgentsSegment, n>>

\* C16: when the check of a manifest in use returns no error, every entry is
\* a string that ends with .md and names a path existing under the plugin
\* root, and the manifest has as many entries as the directory has
\* descriptor files.
C16_NoErrorMeansWellFormed ==
    (ManifestChecked /\ ret.errors = <<>>) =>
        /\ Len(ManifestEntries) = Cardinality(Inventory)
        /\ \A i \in 1..Len(ManifestEntries) :
               /\ ManifestEntries[i].t = "string"
               /\ EndsWith(ManifestEntries[i].s, DotMd)
               /\ EntryOnDisk(ManifestEntries[i])

C16_Witness ==
    /\ ManifestChecked
    /\ ret.errors = <<>>
    /\ Len(ManifestEntries) = MaxFiles
    /\ \A n \in Inventory :
           \E i \in 1..Len(ManifestEntries) : References(ManifestEntries[i], n)

\* The number of manifest entries equal to e.
Occurrences(e) ==
    Cardinality({i \in 1..Len(ManifestEntries) : ManifestEntries[i] = e})

\* The number of manifest entries whose typeof is type.
OfType(type) ==
    Cardinality({i \in 1..Len(ManifestEntries) : TypeOf(ManifestEntries[i]) = type})

\* C17: every entry of the manifest is examined: each entry that is not a
\* string gets one error naming its type, and each string entry gets one
\* error per rule it violates (trailing separator, missing .md suffix, file
\* not existing under the root) and none for a rule it respects, whatever
\* the entries before it.
C17_EveryEntryEveryRule ==
    ManifestChecked =>
        /\ \A type \in {"number", "object", "boolean"} :
               Count(ret.errors, LAMBDA m : m = EntryNotStringMsg(type))
                   = OfType(type)
        /\ \A i \in 1..Len(ManifestEntries) :
               LET e == ManifestEntries[i]
               IN  e.t = "string" =>
                       /\ Count(ret.errors, LAMBDA m : m = EntryIsDirectoryMsg(e.s))
                              = IF EndsWith(e.s, <<Slash>>)
                                THEN Occurrences(e) ELSE 0
                       /\ Count(ret.errors, LAMBDA m : m = EntryNotMdMsg(e.s))
                              = IF EndsWith(e.s, DotMd) THEN 0
                                ELSE Occurrences(e)
                       /\ Count(ret.errors,
                                LAMBDA m : m.msg = EntryMissingMsg(e.s).msg
                                               /\ m.path = e.s)
                              = IF EntryOnDisk(e) THEN 0 ELSE Occurrences(e)

\* An entry that is not a string is followed by an entry that breaks all
\* three rules for strings, and all four errors are reported.
C17_Witness ==
    /\ ManifestChecked
    /\ Len(ManifestEntries) >= 2
    /\ ManifestEntries[Len(ManifestEntries) - 1] = Num(5)
    /\ ManifestEntries[Len(ManifestEntries)] = Str(EntryMissingDirectory)
    /\ Count(ret.errors, LAMBDA m : m = EntryNotStringMsg("number")) = 1
    /\ Count(ret.errors, LAMBDA m : m = EntryIsDirectoryMsg(EntryMissingDirectory)) = 1
    /\ Count(ret.errors, LAMBDA m : m = EntryNotMdMsg(EntryMissingDirectory)) = 1
    /\ Count(ret.errors, LAMBDA m : m = EntryMissingMsg(EntryMissingDirectory)) = 1

\* The plugin root, path.join(__dirname, "../../").
PluginRoot == <<Slash, "r", "e", "p", "o">>

RECURSIVE JoinSegments(_)
JoinSegments(segments) ==
    IF segments = <<>> THEN <<>>
    ELSE <<Slash>> \o Head(segments) \o JoinSegments(Tail(segments))

\* The entry resolved against the plugin root.
ResolvedPath(entry) ==
    PluginRoot \o JoinSegments(JoinRoot(entry.s).segments)
        \o (IF JoinRoot(entry.s).trailing THEN <<Slash>> ELSE <<>>)

IsEntryMissingMsg(m) == m.msg = "file referenced by plugin.json does not exist"

\* A string entry of the manifest, written once, that does not exist under
\* the plugin root.
MissingEntries ==
    {i \in 1..Len(ManifestEntries) :
         /\ ManifestEntries[i].t = "string"
         /\ Occurrences(ManifestEntries[i]) = 1
         /\ ~EntryOnDisk(ManifestEntries[i])}

-----------------------------------------------------------------------------
(* main of validate-agents.js.  call.script tells the two copies apart:     *)
(* "ci" is src/scripts/ci/validate-agents.js, "shell" is the copy in        *)
(* src/scripts/shell/init.sh, which also checks plugin.json.               *)

\* The most files in the agents directory of a batch run.
MaxBatch == 2

\* if (hasErrors) process.exit(1); else main returns and the process ends
\* with status 0.
MutSummaryStatus(errorsSeen, warningsSeen) ==
    IF errorsSeen \/ warningsSeen > 0 THEN 1 ELSE 0

SummaryStatus(errorsSeen, warningsSeen) == IF errorsSeen THEN 1 ELSE 0

\* if (!fs.existsSync(AGENTS_DIR)) process.exit(1); files = readdirSync...;
\* if (files.length === 0) process.exit(0)
MutReadDirectory ==
    /\ pc = "readDirectory"
    /\ IF files.agentsDir.t # "dir"
       THEN /\ files' = [files EXCEPT !.agentsDir = Dir(<<>>)]
            /\ pc' = "exited"
            /\ exit' = [exited |-> TRUE, code |-> 1]
            /\ UNCHANGED <<fileList, fileIndex>>
       ELSE /\ fileList' = MdFiles(files)
            /\ fileIndex' = 1
            /\ pc' = IF MdFiles(files) = <<>> THEN "exited" ELSE "validate"
            /\ exit' = IF MdFiles(files) = <<>>
                       THEN [exited |-> TRUE, code |-> 0] ELSE exit
            /\ UNCHANGED files
    /\ UNCHANGED <<argv, disk, platform, allResults, call, ret, hasErrors,
                   totalWarnings, output, scan>>

ReadDirectory ==
    /\ pc = "readDirectory"
    /\ IF files.agentsDir.t # "dir"
       THEN /\ pc' = "exited"
            /\ exit' = [exited |-> TRUE, code |-> 1]
            /\ UNCHANGED <<fileList, fileIndex>>
       ELSE /\ fileList' = MdFiles(files)
            /\ fileIndex' = 1
            /\ pc' = IF MdFiles(files) = <<>> THEN "exited" ELSE "validate"
            /\ exit' = IF MdFiles(files) = <<>>
                       THEN [exited |-> TRUE, code |-> 0] ELSE exit
    /\ UNCHANGED <<argv, files, disk, platform, allResults, call, ret,
                   hasErrors, totalWarnings, output, scan>>

\* What the loops over errors and warnings print and count for one result.
Printed(label, result) ==
    IF result.errors = <<>> /\ result.warnings = <<>> THEN <<>>
    ELSE <<[file |-> label, errors |-> result.errors,
            warnings |-> result.warnings]>>

\* One turn of for (const file of files): validateAgent and its report.
MutValidateFile ==
    /\ pc = "validate"
    /\ \E result \in {validateAgent(fileList[fileIndex],
                                    FileNamed(files, fileList[fileIndex]))} :
           /\ output' = output \o Printed(fileList[fileIndex], result)
           /\ hasErrors' = (hasErrors \/ result.errors # <<>>)
           /\ totalWarnings' = totalWarnings + Len(result.warnings)
           /\ pc' = IF result.errors # <<>> THEN "summary"
                    ELSE IF fileIndex < Len(fileList) THEN "validate"
                    ELSE IF call.script = "shell" THEN "validatePlugin"
                    ELSE "summary"
    /\ fileIndex' = fileIndex + 1
    /\ UNCHANGED <<argv, files, disk, platform, allResults, exit, call, ret,
                   fileList, scan>>

ValidateFile ==
    /\ pc = "validate"
    /\ \E result \in {validateAgent(fileList[fileIndex],
                                    FileNamed(files, fileList[fileIndex]))} :
           /\ output' = output \o Printed(fileList[fileIndex], result)
           /\ hasErrors' = (hasErrors \/ result.errors # <<>>)
           /\ totalWarnings' = totalWarnings + Len(result.warnings)
    /\ fileIndex' = fileIndex + 1
    /\ pc' = IF fileIndex < Len(fileList) THEN "validate"
             ELSE IF call.script = "shell" THEN "validatePlugin"
             ELSE "summary"
    /\ UNCHANGED <<argv, files, disk, platform, allResults, exit, call, ret,
                   fileList, scan>>

\* validatePluginAgents(files) and its report; plugin.json holding null
\* makes it throw, which nothing catches.
ValidatePlugin ==
    /\ pc = "validatePlugin"
    /\ \E result \in {validatePluginAgents(fileList, files, disk)} :
           IF result.threw
           THEN /\ pc' = "crashed"
                /\ exit' = [exited |-> TRUE, code |-> 1]
                /\ UNCHANGED <<hasErrors, totalWarnings, output>>
           ELSE /\ output' = output \o Printed("plugin.json", result)
                /\ hasErrors' = (hasErrors \/ result.errors # <<>>)
                /\ totalWarnings' = totalWarnings + Len(result.warnings)
                /\ pc' = "summary"
                /\ UNCHANGED exit
    /\ UNCHANGED <<argv, files, disk, platform, allResults, call, ret,
                   fileList, fileIndex, scan>>

\* The summary line and the exit status.
AgentsSummary ==
    /\ pc = "summary"
    /\ pc' = "exited"
    /\ exit' = [exited |-> TRUE,
                code |-> SummaryStatus(hasErrors, totalWarnings)]
    /\ UNCHANGED <<argv, files, disk, platform, allResults, call, ret,
                   agentsLocals>>

NameKey == <<"n", "a", "m", "e", ":", " ">>

\* The descriptor of the k-th file with every field in order.
CleanDocument(k) ==
    Document(Dashes,
             Header(<<NameKey \o Rep("a", k),
                      LineDescription(MinDescriptionLength), LineToolsInline>>),
             Dashes, Rep("x", MinBodyLength))

\* The files the k-th name may hold: in order, with a warning only (its
\* name is foo), with an error (required fields missing), without a header,
\* unreadable.
BatchFiles(k) ==
    {Text(CleanDocument(k)), Text(GoodDocument),
     Text(Document(Dashes, Header(<<LineNameFoo>>), Dashes, <<>>)),
     Text(ScenarioAHeader), Unreadable}

BatchDirectories ==
    {Missing, Dir(<<NotesFile>>)}
        \cup {Dir([i \in 1..k |-> [name |-> AgentName(i), file |-> f[i]]]) :
                  k \in 0..MaxBatch,
                  f \in {g \in [1..MaxBatch -> UNION {BatchFiles(j) : j \in 1..MaxBatch}] :
                             \A j \in 1..MaxBatch : g[j] \in BatchFiles(j)}}

BatchPlugins ==
    {Missing, Garbage, Json(Null), Json([t |-> "object"])}
        \cup {Json(Plugin(Arr(m))) :
                  m \in {<<>>, <<EntryFor(1)>>, <<EntryFor(1), EntryFor(1)>>,
                         <<EntryFor(1), EntryFor(2)>>, <<Str(EntryGone)>>,
                         <<Num(5), Str(EntryDirectory)>>}}

InitAgents ==
    /\ argv = <<>>
    /\ platform = "linux"
    /\ disk = {<<Readme>>}
    /\ files \in [agentsDir : BatchDirectories, plugin : BatchPlugins]
    /\ pc = "readDirectory"
    /\ allResults = <<>>
    /\ exit = [exited |-> FALSE]
    /\ call \in {[fn |-> "main", script |-> s] : s \in {"ci", "shell"}}
    /\ ret = Pending
    /\ AgentsIdle

NextAgents == ReadDirectory \/ ValidateFile \/ ValidatePlugin \/ AgentsSummary

SpecAgents == InitAgents /\ [][NextAgents]_vars

\* Either validator, run once.
InitValidators == Init \/ InitAgents

NextValidators == Next \/ NextAgents

SpecValidators == InitValidators /\ [][NextValidators]_vars

-----------------------------------------------------------------------------
(* Properties of the runs *)

\* C19: no step of either validator (the descriptor batch with its manifest
\* check, the hook validation of the selected sources) changes the file
\* system: the files and directories are after the step what they were
\* before it.
C19_FileSystemUnchanged == [][files' = files /\ disk' = disk]_vars

\* A descriptor batch has run to its end and found errors.
C19_Witness ==
    /\ call = [fn |-> "main", script |-> "shell"]
    /\ pc = "exited"
    /\ hasErrors
    /\ exit.code = 1

\* A batch run of the descriptor validator has ended.
BatchEnded ==
    /\ call.fn = "main"
    /\ "script" \in DOMAIN call
    /\ exit.exited

\* The descriptor files of the directory, in readdir order.
DescriptorEntries ==
    IF files.agentsDir.t = "dir"
    THEN SelectSeq(files.agentsDir.entries, LAMBDA e : EndsWith(e.name, DotMd))
    ELSE <<>>

\* Some descriptor document of the directory has an error.
DescriptorError ==
    \E i \in 1..Len(DescriptorEntries) :
        validateAgent(DescriptorEntries[i].name,
                      DescriptorEntries[i].file).errors # <<>>

\* The run reaches the manifest check: the copy that has one, over a
\* directory with at least one descriptor file.
ManifestCheckRuns ==
    call.script = "shell" /\ DescriptorEntries # <<>>

\* The manifest check has an error.
ManifestError ==
    /\ ManifestCheckRuns
    /\ \E r \in {validatePluginAgents(MdFiles(files), files, disk)} :
           ~r.threw /\ r.errors # <<>>

\* The manifest check throws.
ManifestThrows ==
    /\ ManifestCheckRuns
    /\ validatePluginAgents(MdFiles(files), files, disk).threw

\* Every descriptor file of the directory has been validated.
AllValidated == fileIndex = Len(DescriptorEntries) + 1

\* C20 as stated: the batch run exits with status 1 if and only if a
\* descriptor document or the manifest check produced an error, with status 0
\* otherwise, and every descriptor file is validated before it exits.
C20_ExitOneIffError ==
    BatchEnded =>
        /\ exit.code = IF DescriptorError \/ ManifestError THEN 1 ELSE 0
        /\ AllValidated

\* C20: the batch run exits with status 1 if and only if the agents
\* directory is missing, or a descriptor document or the manifest check
\* produced an error, or the manifest check threw; it exits with status 0
\* otherwise; and when the directory exists every descriptor file is
\* validated before it exits.
C20_ExitOneIffErrorOrAbort ==
    BatchEnded =>
        /\ exit.code =
               IF \/ files.agentsDir.t # "dir"
                  \/ DescriptorError
                  \/ ManifestError
                  \/ ManifestThrows
               THEN 1 ELSE 0
        /\ files.agentsDir.t = "dir" => AllValidated

\* Two descriptor files, the second with warnings only, the manifest in
\* order: the run has validated both and ends with status 0.
C20_Witness ==
    /\ BatchEnded
    /\ call.script = "shell"
    /\ Len(DescriptorEntries) = MaxBatch
    /\ AllValidated
    /\ totalWarnings > 0
    /\ ~hasErrors
    /\ exit.code = 0

\* C21: when the agents directory does not exist, the first step of the batch
\* run ends it with status 1, with no document read or validated, nothing
\* reported and no manifest check; and a run that ends without having
\* validated every descriptor file of the directory is such a run.
C21_MissingDirectoryEndsRun ==
    [][/\ (pc = "readDirectory" /\ files.agentsDir.t # "dir") =>
              /\ pc' = "exited"
              /\ exit' = [exited |-> TRUE, code |-> 1]
              /\ output' = <<>> /\ fileIndex' = fileIndex
              /\ ~hasErrors' /\ totalWarnings' = 0 /\ ret' = Pending
       /\ (BatchEnded' /\ ~AllValidated') => files.agentsDir.t # "dir"]_vars

\* The run over a missing agents directory has ended, in the copy that has a
\* manifest check and over a manifest with a wrong entry.
C21_Witness ==
    /\ BatchEnded
    /\ call.script = "shell"
    /\ files.agentsDir.t # "dir"
    /\ files.plugin \in {Garbage, Json(Plugin(Arr(<<Str(EntryGone)>>)))}
    /\ ~AllValidated
    /\ output = <<>>
    /\ exit.code = 1

-----------------------------------------------------------------------------
(* Calls of parseFrontmatter, one turn of its loop at a time *)

\* The most lines in a header drawn.
MaxHeaderLines == 3

\* the line 't: [a , 'b']'
KeyInlineList ==
    <<"t", ":", " ", "[", "a", " ", ",", " ", "'", "b", "'", "]">>

\* the line 't:'
KeyEmptyValue ==
    <<"t", ":">>

\* the line 'd: |'
KeyBar ==
    <<"d", ":", " ", "|">>

\* the line 'd: > '
KeyFold ==
    <<"d", ":", " ", ">", " ">>

\* the line 'n: "x y"'
KeyDoubleQuoted ==
    <<"n", ":", " ", "\"", "x", " ", "y", "\"">>

\* the line 'n: 'x''
KeySingleQuoted ==
    <<"n", ":", " ", "'", "x", "'">>

\* the line 'n:  a:b '
KeyRaw ==
    <<"n", ":", " ", " ", "a", ":", "b", " ">>

\* the line '  - a'
ItemA ==
    <<" ", " ", "-", " ", "a">>

\* the line ' -  b '
ItemB ==
    <<" ", "-", " ", " ", "b", " ">>

\* the line '  more '
IndentedText ==
    <<" ", " ", "m", "o", "r", "e", " ">>

\* the line 'junk'
Junk ==
    <<"j", "u", "n", "k">>

\* the line '  k: v'
IndentedKey ==
    <<" ", " ", "k", ":", " ", "v">>

\* the line ':x'
NoKey ==
    <<":", "x">>

\* the line '  -x'
DashNoSpace ==
    <<" ", " ", "-", "x">>

HeaderLineUniverse ==
    {KeyInlineList, KeyEmptyValue, KeyBar, KeyFold, KeyDoubleQuoted,
     KeySingleQuoted, KeyRaw, ItemA, ItemB, IndentedText, Junk, IndentedKey,
     NoKey, DashNoSpace}

\* The items and the scalars a header may be written from.
WrittenItems == {<<"a">>, <<"b", " ", "c">>}

WrittenLists == SeqsUpTo(WrittenItems, 2)

WrittenScalars == {<<>>, <<"x">>, <<"x", " ", "y">>}

RECURSIVE JoinWith(_, _)
\* The texts with the separator between them.
JoinWith(texts, sep) ==
    IF texts = <<>> THEN <<>>
    ELSE IF Len(texts) = 1 THEN texts[1]
    ELSE texts[1] \o sep \o JoinWith(Tail(texts), sep)

\* The header lines that write a list as an inline list, a list as a block
\* list, a scalar as a double-quoted and as a single-quoted scalar.
WriteInlineList(key, items) ==
    <<key \o <<":", " ", "[">> \o JoinWith(items, <<",", " ">>) \o <<"]">>>>

WriteBlockList(key, items) ==
    <<key \o <<":">>>> \o [i \in 1..Len(items) |-> <<" ", " ", "-", " ">> \o items[i]]

WriteQuoted(key, quote, text) ==
    <<key \o <<":", " ", quote>> \o text \o <<quote>>>>

WrittenHeaders ==
    {WriteInlineList(<<"t">>, l) : l \in WrittenLists}
        \cup {WriteBlockList(<<"t">>, l) : l \in WrittenLists}
        \cup {WriteQuoted(<<"n">>, q, s) : q \in {"\"", "'"}, s \in WrittenScalars}

\* The documents: a header of the lines drawn or written, and one document
\* whose header is never closed.
ScanDocuments ==
    {Document(Dashes, JoinLines(lines), Dashes, <<>>) :
         lines \in (SeqsUpTo(HeaderLineUniverse, MaxHeaderLines) \ {<<>>})
                       \cup WrittenHeaders}
        \cup {Dashes \o <<NL>> \o KeyRaw}

InitScan ==
    /\ MainIdle
    /\ disk = {}
    /\ platform = "linux"
    /\ call \in {[fn |-> "parseFrontmatter", content |-> c] : c \in ScanDocuments}
    /\ ret = Pending

\* content.match(...); if (!match) return null; lines, data, currentKey and
\* multilineMode before the loop.
MatchHeader ==
    /\ call.fn = "parseFrontmatter"
    /\ ret = Pending
    /\ scan.index = 0
    /\ IF HeaderClose(call.content) = 0
       THEN ret' = Null /\ UNCHANGED scan
       ELSE /\ scan' = [lines |-> Split(HeaderBlock(call.content), NL),
                        index |-> 1,
                        st |-> [data |-> [k \in {} |-> Undef],
                                currentKey |-> <<>>,
                                multilineMode |-> "none"]]
            /\ UNCHANGED ret
    /\ UNCHANGED <<argv, files, disk, platform, pc, allResults, exit, call,
                   fileList, fileIndex, hasErrors, totalWarnings, output>>

\* One turn of for (const line of lines).
ScanLine ==
    /\ call.fn = "parseFrontmatter"
    /\ scan.index > 0
    /\ scan.index <= Len(scan.lines)
    /\ \E st \in {ParseLine(scan.st, scan.lines[scan.index])} :
           scan' = [scan EXCEPT !.index = scan.index + 1, !.st = st]
    /\ UNCHANGED <<argv, files, disk, platform, pc, allResults, exit, call,
                   ret, fileList, fileIndex, hasErrors, totalWarnings, output>>

\* return data
ScanReturn ==
    /\ call.fn = "parseFrontmatter"
    /\ ret = Pending
    /\ scan.index > 0
    /\ scan.index = Len(scan.lines) + 1
    /\ ret' = [t |-> "object", data |-> scan.st.data]
    /\ UNCHANGED <<argv, files, disk, platform, pc, allResults, exit, call,
                   fileList, fileIndex, hasErrors, totalWarnings, output, scan>>

NextScan == MatchHeader \/ ScanLine \/ ScanReturn

SpecScan == InitScan /\ [][NextScan]_vars

\* The loop returns what parseFrontmatter returns for the document.
ScanAgrees ==
    (call.fn = "parseFrontmatter" /\ ret # Pending) =>
        ret = parseFrontmatter(call.content)

-----------------------------------------------------------------------------
(* Properties of the header scanner *)

\* The loop of parseFrontmatter takes its turn over the next line.
TurnTaken ==
    /\ call.fn = "parseFrontmatter"
    /\ scan.index > 0
    /\ scan.index <= Len(scan.lines)
    /\ scan'.index = scan.index + 1

\* The line of the turn.
TurnLine == scan.lines[scan.index]

\* The position of the line's first colon, 0 when it has none.
FirstColon(line) ==
    IF \E i \in 1..Len(line) : line[i] = ":"
    THEN CHOOSE i \in 1..Len(line) :
             line[i] = ":" /\ \A j \in 1..(i - 1) : line[j] # ":"
    ELSE 0

\* The text before the first colon and the text after it, trimmed.
KeyText(line) == Trim(SubSeq(line, 1, FirstColon(line) - 1))

ValueText(line) == Trim(SubSeq(line, FirstColon(line) + 1, Len(line)))

\* A line without leading whitespace that contains a colon.
IsTopLevelKeyLine(line) ==
    /\ line # <<>>
    /\ ~IsWhite(line[1])
    /\ FirstColon(line) > 0

\* A text in single or in double quotes.
IsQuoted(text) ==
    /\ Len(text) >= 2
    /\ text[1] \in {"\"", "'"}
    /\ text[Len(text)] = text[1]

\* The text without the quotes around it.
Unquoted(text) ==
    IF IsQuoted(text) THEN SubSeq(text, 2, Len(text) - 1) ELSE text

\* The texts between the commas of a text.
Pieces(text) ==
    LET commas == {i \in 1..Len(text) : text[i] = ","}
        cuts == commas \cup {0, Len(text) + 1}
        starts == cuts \ {Len(text) + 1}
        NextCut(c) == CHOOSE d \in cuts : d > c /\ \A e \in cuts : e > c => d <= e
        Ordered == CHOOSE f \in [1..Cardinality(starts) -> starts] :
                       \A i, j \in 1..Cardinality(starts) : i < j => f[i] < f[j]
    IN  [i \in 1..Cardinality(starts) |->
             SubSeq(text, Ordered[i] + 1, NextCut(Ordered[i]) - 1)]

\* What a key line stores and the mode it leaves, by the form of its value.
StoredFor(line) ==
    LET text == ValueText(line)
    IN  IF Len(text) >= 2 /\ text[1] = "[" /\ text[Len(text)] = "]"
        THEN [value |-> Arr([i \in 1..Len(Pieces(SubSeq(text, 2, Len(text) - 1))) |->
                                 Str(Unquoted(Trim(Pieces(SubSeq(text, 2, Len(text) - 1))[i])))]),
              mode |-> "none"]
        ELSE IF text \in {<<"|">>, <<">">>}
        THEN [value |-> Str(<<>>), mode |-> "string"]
        ELSE IF text = <<>>
        THEN [value |-> Arr(<<>>), mode |-> "array"]
        ELSE IF IsQuoted(text)
        THEN [value |-> Str(Unquoted(text)), mode |-> "none"]
        ELSE [value |-> Str(text), mode |-> "none"]

\* The turn sets currentKey to the line's key, stores the value of the line's
\* form under it in place of any earlier value, leaves the other keys alone,
\* and leaves the mode the form opens.
KeyLineStored(line) ==
    /\ scan'.st.currentKey = KeyText(line)
    /\ scan'.st.multilineMode = StoredFor(line).mode
    /\ DOMAIN scan'.st.data = DOMAIN scan.st.data \cup {KeyText(line)}
    /\ scan'.st.data[KeyText(line)] = StoredFor(line).value
    /\ \A k \in DOMAIN scan.st.data \ {KeyText(line)} :
           scan'.st.data[k] = scan.st.data[k]

\* C22 as stated: the turn over a line without leading whitespace that
\* contains a colon sets currentKey, stores the value of the line's form
\* under the key in place of any earlier value, and leaves mode none unless
\* the form opens string or array mode.
C22_KeyLineStores ==
    [][(TurnTaken /\ IsTopLevelKeyLine(TurnLine)) => KeyLineStored(TurnLine)]_vars

\* C22: the turn over a line without leading whitespace that has a colon
\* and a key before it sets currentKey, stores the value of the line's form
\* under the key in place of any earlier value, and leaves mode none unless
\* the form opens string or array mode; when the key is empty the turn only
\* resets the mode to none.
C22_NamedKeyLineStores ==
    [][(TurnTaken /\ IsTopLevelKeyLine(TurnLine)) =>
           IF KeyText(TurnLine) # <<>>
           THEN KeyLineStored(TurnLine)
           ELSE scan'.st = [scan.st EXCEPT !.multilineMode = "none"]]_vars

\* A key has been written twice, first as a block list with one item and
\* then as an inline list, and holds the inline list.
C22_Witness ==
    /\ call.fn = "parseFrontmatter"
    /\ scan.index = 4
    /\ scan.lines = <<KeyEmptyValue, ItemA, KeyInlineList>>
    /\ scan.st.currentKey = <<"t">>
    /\ scan.st.multilineMode = "none"
    /\ scan.st.data[<<"t">>] = Arr(<<Str(<<"a">>), Str(<<"b">>)>>)

\* The position of the dash of an indented dash item: whitespace, a dash,
\* whitespace; 0 when the line is not one.
DashOf(line) ==
    IF \E d \in 2..(Len(line) - 1) :
           /\ line[d] = "-"
           /\ IsWhite(line[d + 1])
           /\ \A j \in 1..(d - 1) : IsWhite(line[j])
    THEN CHOOSE d \in 2..(Len(line) - 1) :
             /\ line[d] = "-"
             /\ \A j \in 1..(d - 1) : IsWhite(line[j])
    ELSE 0

\* The item of an indented dash item.
ItemText(line) == Trim(SubSeq(line, DashOf(line) + 1, Len(line)))

\* The turn appends the item to the list under currentKey and changes
\* nothing else.
ItemAppended(line) ==
    /\ scan'.st.currentKey = scan.st.currentKey
    /\ scan'.st.multilineMode = "array"
    /\ DOMAIN scan'.st.data = DOMAIN scan.st.data
    /\ scan'.st.data[scan.st.currentKey] =
           Arr(Append(scan.st.data[scan.st.currentKey].items,
                      Str(ItemText(line))))
    /\ \A k \in DOMAIN scan.st.data \ {scan.st.currentKey} :
           scan'.st.data[k] = scan.st.data[k]

\* C23: in array mode the turn over an indented dash item appends the
\* trimmed item at the end of the list under currentKey; the turn over any
\* other line ends array mode and treats the line as a possible top-level
\* key line (it stores the line's value when the line is one with a key and
\* changes nothing else when it is not); outside array mode the turn over an
\* indented dash item leaves the mapping as it was.
C23_ArrayMode ==
    [][TurnTaken =>
           IF scan.st.multilineMode = "array"
           THEN IF DashOf(TurnLine) > 0 THEN ItemAppended(TurnLine)
                ELSE IF IsTopLevelKeyLine(TurnLine) /\ KeyText(TurnLine) # <<>>
                THEN KeyLineStored(TurnLine)
                ELSE scan'.st = [scan.st EXCEPT !.multilineMode = "none"]
           ELSE DashOf(TurnLine) > 0 => scan'.st.data = scan.st.data]_vars

\* Two items have been appended in order, and a third dash item after a
\* line that ended array mode has been appended to no key.
C23_Witness ==
    /\ call.fn = "parseFrontmatter"
    /\ scan.index > 0
    /\ ret # Pending
    /\ \/ /\ scan.lines = <<KeyEmptyValue, ItemA, ItemB>>
          /\ ret.data[<<"t">>] = Arr(<<Str(<<"a">>), Str(<<"b">>)>>)
       \/ /\ scan.lines = <<KeyEmptyValue, Junk, ItemA>>
          /\ ret.data[<<"t">>] = Arr(<<>>)

\* parseFrontmatter has returned the mapping of a header.
HeaderScanned ==
    /\ call.fn = "parseFrontmatter"
    /\ scan.index > 0
    /\ ret # Pending

\* Line i opens a string for its key with | or >.
OpensString(lines, i) ==
    /\ IsTopLevelKeyLine(lines[i])
    /\ KeyText(lines[i]) # <<>>
    /\ ValueText(lines[i]) \in {<<"|">>, <<">">>}

\* The first top-level key line after line i, one past the last line when
\* there is none.
NextKeyLine(lines, i) ==
    LET later == {j \in (i + 1)..Len(lines) : IsTopLevelKeyLine(lines[j])}
    IN  IF later = {} THEN Len(lines) + 1
        ELSE CHOOSE j \in later : \A k \in later : j <= k

\* The indented, non-dash lines between line i and the next top-level key
\* line, each trimmed, joined by single spaces.
FoldedText(lines, i) ==
    LET between == SubSeq(lines, i + 1, NextKeyLine(lines, i) - 1)
        kept == SelectSeq(between,
                          LAMBDA l : l # <<>> /\ IsWhite(l[1]) /\ DashOf(l) = 0)
    IN  JoinWith([m \in 1..Len(kept) |-> Trim(kept[m])], <<" ">>)

\* C24: for a key opened with | or > (and not written again later), the
\* parsed value is the trimmed text of the indented, non-dash lines between
\* the key line and the next top-level key line, joined by single spaces,
\* with no separator before the first or after the last; lines in between
\* that are no continuation are passed over.
C24_FoldedString ==
    HeaderScanned =>
        \A i \in 1..Len(scan.lines) :
            (/\ OpensString(scan.lines, i)
             /\ \A j \in (i + 1)..Len(scan.lines) :
                    IsTopLevelKeyLine(scan.lines[j]) =>
                        KeyText(scan.lines[j]) # KeyText(scan.lines[i]))
                => ret.data[KeyText(scan.lines[i])] =
                       Str(FoldedText(scan.lines, i))

\* The list value of the items and the items of a list value.
ListValue(items) == Arr([i \in 1..Len(items) |-> Str(items[i])])

ItemsOf(value) == [i \in 1..Len(value.items) |-> value.items[i].s]

\* What parseFrontmatter returns for a header of the lines.
ParsedAgain(lines) ==
    parseFrontmatter(Document(Dashes, JoinLines(lines), Dashes, <<>>))

\* C25: a header that writes a list as an inline list or as a block list,
\* or a text as a quoted scalar, parses to a mapping that holds the list or
\* the text written; and writing the parsed value again in the same form and
\* parsing that yields the same mapping.
C25_RoundTrip ==
    HeaderScanned =>
        /\ \A items \in WrittenLists :
               /\ scan.lines = WriteInlineList(<<"t">>, items) =>
                      /\ ret.data[<<"t">>] = ListValue(items)
                      /\ ParsedAgain(WriteInlineList(
                             <<"t">>, ItemsOf(ret.data[<<"t">>]))) = ret
               /\ scan.lines = WriteBlockList(<<"t">>, items) =>
                      /\ ret.data[<<"t">>] = ListValue(items)
                      /\ ParsedAgain(WriteBlockList(
                             <<"t">>, ItemsOf(ret.data[<<"t">>]))) = ret
        /\ \A text \in WrittenScalars, quote \in {"\"", "'"} :
               scan.lines = WriteQuoted(<<"n">>, quote, text) =>
                   /\ ret.data[<<"n">>] = Str(text)
                   /\ ParsedAgain(WriteQuoted(
                          <<"n">>, quote, ret.data[<<"n">>].s)) = ret

-----------------------------------------------------------------------------
(* printSuggestions *)

\* issue.includes("脚本文件不存在"): the message of a missing script file.
\* No command, path or type drawn holds that phrase.
IncludesScriptMissing(issue) == issue.msg = ScriptMissingMsg.msg

\* The text of a value interpolated into a message holds the word timeout.
HoldsTimeoutWord(value) ==
    /\ value.t = "string"
    /\ \E i \in 1..Len(value.s) : value.s[i] = "timeout"

\* issue.includes("timeout"): the messages of validateTimeout hold the word,
\* and so does any message that cites a command, a path or a type holding it.
IncludesTimeout(issue) ==
    \/ issue.msg \in {TimeoutUnsetMsg.msg,
                      "timeout must be a positive number",
                      "timeout exceeds the maximum",
                      "timeout may be too short"}
    \/ "cited" \in DOMAIN issue /\ HoldsTimeoutWord(issue.cited)
    \/ "type" \in DOMAIN issue /\ HoldsTimeoutWord(issue.type)

\* CONFIG.timeout.recommended[lifecycle] || 5
RecommendedOrDefault(lifecycle) ==
    IF lifecycle \in DOMAIN Recommended /\ Recommended[lifecycle] # 0
    THEN Recommended[lifecycle] ELSE 5

\* What one turn of for (const issue of entry.issues) prints, given
\* suggestionIndex.
SuggestionFor(issue, lifecycle, index, suggestionIndex) ==
    IF IncludesScriptMissing(issue)
    THEN <<[number |-> suggestionIndex, kind |-> "script path",
            lifecycle |-> lifecycle, index |-> index]>>
    ELSE IF IncludesTimeout(issue)
    THEN <<[number |-> suggestionIndex, kind |-> "timeout",
            lifecycle |-> lifecycle, index |-> index,
            recommended |-> RecommendedOrDefault(lifecycle)]>>
    ELSE <<>>

RECURSIVE SuggestIssues(_, _, _, _)
\* for (const issue of entry.issues): the suggestions printed so far with
\* those of the issues; suggestionIndex is one more than their number.
SuggestIssues(issues, lifecycle, index, printed) ==
    IF issues = <<>> THEN printed
    ELSE SuggestIssues(Tail(issues), lifecycle, index,
                       printed \o SuggestionFor(Head(issues), lifecycle, index,
                                                Len(printed) + 1))

RECURSIVE SuggestEntries(_, _, _)
\* for (const entry of data.entries)
SuggestEntries(entries, lifecycle, printed) ==
    IF entries = <<>> THEN printed
    ELSE SuggestEntries(Tail(entries), lifecycle,
                        SuggestIssues(Head(entries).issues, lifecycle,
                                      Head(entries).index, printed))

RECURSIVE SuggestLifecycles(_, _)
\* for (const [lifecycle, data] of Object.entries(results.lifecycles))
SuggestLifecycles(lifecycles, printed) ==
    IF lifecycles = <<>> THEN printed
    ELSE SuggestLifecycles(
             Tail(lifecycles),
             IF Head(lifecycles).error # Absent THEN printed
             ELSE SuggestEntries(Head(lifecycles).entries,
                                 Head(lifecycles).key, printed))

\* What printSuggestions prints: nothing at all, or the heading with the
\* numbered suggestions, or the heading with the fallback line.
printSuggestions(results) ==
    IF results.valid /\ results.summary.warnings = 0
    THEN [heading |-> FALSE, suggestions |-> <<>>, fallback |-> FALSE]
    ELSE LET suggestions == SuggestLifecycles(results.lifecycles, <<>>)
         IN  [heading |-> TRUE, suggestions |-> suggestions,
              fallback |-> suggestions = <<>>]

\* The reports validateHooksConfig returns for the configurations drawn.
ReportUniverse ==
    {validateHooksConfig(c, "settings.json", d, "linux") :
         c \in ConfigUniverse, d \in {{}, {ScriptFile}}} \ {Threw}

InitSuggestions ==
    /\ MainIdle
    /\ disk = {}
    /\ platform = "linux"
    /\ call \in {[fn |-> "printSuggestions", results |-> r] : r \in ReportUniverse}
    /\ ret = Pending

RunPrintSuggestions ==
    /\ call.fn = "printSuggestions"
    /\ ret = Pending
    /\ ret' = printSuggestions(call.results)
    /\ UNCHANGED <<argv, files, disk, platform, pc, allResults, exit, call,
                   agentsLocals>>

SpecSuggestions == InitSuggestions /\ [][RunPrintSuggestions]_vars

\* printSuggestions has returned.
SuggestionsPrinted == call.fn = "printSuggestions" /\ ret # Pending

\* The places of the entry issues of a report, as lifecycle, entry and issue
\* positions, in the lifecycles that carry no lifecycle-level error.
IssuePlaces(report) ==
    UNION {UNION {{<<i, j, k>> :
                      k \in 1..Len(report.lifecycles[i].entries[j].issues)} :
                  j \in 1..Len(report.lifecycles[i].entries)} :
              i \in {l \in 1..Len(report.lifecycles) :
                         report.lifecycles[l].error = Absent}}

IssueAt(report, p) == report.lifecycles[p[1]].entries[p[2]].issues[p[3]]

\* The places whose message holds one of the two phrases.
MatchingPlaces(report) ==
    {p \in IssuePlaces(report) :
         \/ IncludesScriptMissing(IssueAt(report, p))
         \/ IncludesTimeout(IssueAt(report, p))}

\* Report order.
PlaceBefore(p, q) ==
    \/ p[1] < q[1]
    \/ p[1] = q[1] /\ p[2] < q[2]
    \/ p[1] = q[1] /\ p[2] = q[2] /\ p[3] < q[3]

\* The number of a matching place, counted from 1 in report order.
PlaceNumber(report, p) ==
    1 + Cardinality({q \in MatchingPlaces(report) : PlaceBefore(q, p)})

\* The suggestions printed are those of the matching places, numbered in
\* report order, and the fallback line is printed when there is none.
SuggestionsMatch(report) ==
    /\ ret.heading
    /\ Len(ret.suggestions) = Cardinality(MatchingPlaces(report))
    /\ \A p \in MatchingPlaces(report) :
           LET s == ret.suggestions[PlaceNumber(report, p)]
           IN  /\ s.number = PlaceNumber(report, p)
               /\ s.lifecycle = report.lifecycles[p[1]].key
               /\ s.index = report.lifecycles[p[1]].entries[p[2]].index
               /\ s.kind = IF IncludesScriptMissing(IssueAt(report, p))
                           THEN "script path" ELSE "timeout"
    /\ ret.fallback <=> MatchingPlaces(report) = {}

\* C26: for a source with at least one error, printSuggestions prints one
\* suggestion per entry issue whose message holds 'script file not found'
\* or else 'timeout', citing the lifecycle and the entry index and numbered
\* from 1 in report order; it prints the fallback line when no issue
\* matches; lifecycles with a lifecycle-level error give no suggestion.
C26_SuggestionsForFailures ==
    (SuggestionsPrinted /\ HasAnyError(call.results)) =>
        SuggestionsMatch(call.results)

-----------------------------------------------------------------------------
(* Properties of the reports and of main, continued *)

\* C27: in every report validateHooksConfig returns, valid is false if and
\* only if the report holds at least one error (top-level, lifecycle-level
\* or entry-level), and the verdict printReport prints for the source is
\* a failure if and only if the source adds to the errors main sums for the
\* exit status.
C27_ValidIffNoError ==
    Reported =>
        /\ ~ret.valid <=> HasAnyError(ret)
        /\ PrintReportVerdict(ret) \in {"failed", "error"}
               <=> ret.summary.errors > 0

\* The places of the entry warnings of a report.
WarningPlaces(report) ==
    UNION {UNION {{<<i, j, k>> :
                      k \in 1..Len(report.lifecycles[i].entries[j].warnings)} :
                  j \in 1..Len(report.lifecycles[i].entries)} :
              i \in 1..Len(report.lifecycles)}

\* The configuration a report of main is about.
InputOf(report) ==
    IF report.source = GlobalPath THEN files.global.data
    ELSE IF report.source = ProjectLocalPath THEN files.projectLocal.data
    ELSE files.project.data

\* The places of the actions of a configuration: in the lifecycles that are
\* validated (an allowed name, a list of entries), in the entries that have
\* an actions list.
ActionPlaces(config) ==
    LET pairs == config.hooks.props
        Entries(i) == pairs[i].value.items
    IN  UNION {UNION {{<<i, j, k>> : k \in 1..Len(Entries(i)[j].hooks.items)} :
                      j \in {e \in 1..Len(Entries(i)) :
                                 /\ "hooks" \in DOMAIN Entries(i)[e]
                                 /\ Entries(i)[e].hooks.t = "array"}} :
                  i \in {l \in 1..Len(pairs) :
                             /\ pairs[l].key \in validLifecycles
                             /\ pairs[l].value.t = "array"}}

\* The sum of f[1] .. f[n].
RECURSIVE SumTo(_, _)
SumTo(f, n) == IF n = 0 THEN 0 ELSE f[n] + SumTo(f, n - 1)

\* C28: in every report main has collected, summary.errors is the number of
\* lifecycle-level errors plus the number of entry issues recorded,
\* summary.warnings the number of entry warnings recorded, and summary.hooks
\* the number of actions in the entries with an actions list; and the totals
\* main prints are the sums of these counts over the reports collected,
\* which are the sources validated.
C28_CountsAndTally ==
    call = [fn |-> "main"] =>
        /\ \A n \in 1..Len(allResults) :
               LET report == allResults[n]
               IN  /\ report.summary.errors =
                          Cardinality(LifecycleErrors(report))
                              + Cardinality(IssuePlaces(report))
                   /\ report.summary.warnings =
                          Cardinality(WarningPlaces(report))
                   /\ report.summary.hooks =
                          IF report.error # Absent THEN 0
                          ELSE Cardinality(ActionPlaces(InputOf(report)))
        /\ pc = "exited" =>
               output =
                   <<[sources |-> Len(allResults),
                      hooks |-> SumTo([n \in 1..Len(allResults) |->
                                           allResults[n].summary.hooks],
                                      Len(allResults)),
                      errors |-> SumTo([n \in 1..Len(allResults) |->
                                            allResults[n].summary.errors],
                                       Len(allResults)),
                      warnings |-> SumTo([n \in 1..Len(allResults) |->
                                              allResults[n].summary.warnings],
                                         Len(allResults))]>>

\* Two sources have been validated, one with two entry issues, a warning
\* and two actions, and the totals are printed.
C28_Witness ==
    /\ call = [fn |-> "main"]
    /\ pc = "exited"
    /\ Len(allResults) = 2
    /\ allResults[1].summary = [errors |-> 2, warnings |-> 1, hooks |-> 2]
    /\ allResults[2].summary.errors = 1
    /\ LifecycleErrors(allResults[2]) # {}
    /\ output[1].errors = 3

\* The command text holds an interpreter (a word ending with node, python,
\* python3 or bash) followed by white space, a quote or none, and a path.
HasInvocation(cmd) ==
    \E i, j \in 1..Len(cmd) :
        /\ i + 2 <= j
        /\ EndsWithInterpreter(cmd[i])
        /\ IsPlain(cmd[j])
        /\ LET last == IF IsQuote(cmd[j - 1]) THEN j - 2 ELSE j - 1
           IN  /\ last >= i + 1
               /\ \A m \in (i + 1)..last : IsSpace(cmd[m])

\* validateHook has returned for an action whose command is a text without
\* such an invocation.
UnparsableCommandChecked ==
    /\ call.fn = "validateHook"
    /\ ret # Pending
    /\ call.hook.t = "object"
    /\ "command" \in DOMAIN call.hook
    /\ call.hook.command.t = "string"
    /\ call.hook.command.s # <<>>
    /\ ~HasInvocation(call.hook.command.s)

\* C29: an action whose command is a text that holds no interpreter followed
\* by a path gets exactly one error on account of the command, which says
\* the script path cannot be parsed and cites the command text; no file is
\* looked up: the result is the same whatever files exist.
C29_UnparsableCommandReported ==
    UnparsableCommandChecked =>
        /\ ~ret.threw
        /\ Count(ret.issues, IsPathIssue) = 1
        /\ \A k \in 1..Len(ret.issues) :
               IsPathIssue(ret.issues[k]) =>
                   /\ ret.issues[k].msg = ScriptUnparsableMsg.msg
                   /\ ret.issues[k].cited = call.hook.command
        /\ \A d \in {{}, KnownFiles, disk \cup {call.hook.command.s}} :
               validateHook(call.hook, call.lifecycle, d, platform) = ret

\* The command 'node ""' has been reported over a disk that holds the
\* scripts.
C29_Witness ==
    /\ UnparsableCommandChecked
    /\ call.hook.command = Str(<<"node", " ", "\"", "\"">>)
    /\ disk = KnownFiles
    /\ \E k \in 1..Len(ret.issues) :
           /\ IsPathIssue(ret.issues[k])
           /\ ret.issues[k].cited = call.hook.command

\* The file could be loaded: it is there and holds JSON.
Loaded(file) == file.t = "json"

\* The sources main is to validate, in order: the global file when it is
\* selected and loaded; for the project scope, when selected, the local file
\* when it is loaded, else the shared file when that is loaded.
SourcesToValidate ==
    (IF CheckGlobalSelected(argv) /\ Loaded(files.global)
     THEN <<[path |-> GlobalPath, file |-> files.global]>> ELSE <<>>)
    \o (IF ~CheckProjectSelected(argv) THEN <<>>
        ELSE IF Loaded(files.projectLocal)
        THEN <<[path |-> ProjectLocalPath, file |-> files.projectLocal]>>
        ELSE IF Loaded(files.project)
        THEN <<[path |-> ProjectPath, file |-> files.project]>>
        ELSE <<>>)

\* C30: when main exits, the reports it has collected are those of the
\* selected sources that could be loaded, each validated, in order: a
\* selected source whose file is missing or is not JSON leaves no report, is
\* not counted among the files checked and adds no error to the exit
\* status, and the other source is validated all the same; the shared
\* project file is read only when the local one could not be loaded; at
\* most one project source and at most two sources are validated.
C30_UnloadableSourceSkipped ==
    (call = [fn |-> "main"] /\ pc = "exited") =>
        /\ Len(allResults) = Len(SourcesToValidate)
        /\ \A n \in 1..Len(allResults) :
               allResults[n] =
                   validateHooksConfig(SourcesToValidate[n].file.data,
                                       SourcesToValidate[n].path,
                                       disk, platform)
        /\ output[1].sources = Len(SourcesToValidate)
        /\ exit.code = 1 <=>
               \E n \in 1..Len(allResults) : allResults[n].summary.errors > 0
        /\ Len(allResults) <= 2
        /\ Cardinality({n \in 1..Len(allResults) :
                            allResults[n].source
                                \in {ProjectLocalPath, ProjectPath}}) <= 1

\* Both scopes were selected, the global file is not JSON and the local
\* project file is missing: only the shared project file has been validated,
\* with an error that decides the exit status.
C30_Witness ==
    /\ call = [fn |-> "main"]
    /\ pc = "exited"
    /\ CheckGlobalSelected(argv) /\ CheckProjectSelected(argv)
    /\ files.global = Garbage
    /\ files.projectLocal = Missing
    /\ Len(allResults) = 1
    /\ allResults[1].source = ProjectPath
    /\ exit.code = 1

=============================================================================
